---- MODULE Spec2Model ----
(***************************************************************************)
(* Tool orchestration core of the chat route:                              *)
(*   src/src/app/api/chat/route.ts        (POST, one chat turn)            *)
(*   src/src/app/api/chat/shared.chat.ts  (tool loading, manual gate,      *)
(*                                         workflow-to-tool adapter)       *)
(* Names are sequences of one-character strings, so that conversions on    *)
(* names (getToolName, the workflow tool-name normalisation) are computed. *)
(***************************************************************************)
EXTENDS Integers, Sequences, FiniteSets, Bags, TLC

VARIABLES
    pc,                 \* position of POST / the stream's execute callback
    req,                \* the parsed request body of the current turn
    message,            \* the incoming message (its parts are mutated by the gate)
    threw,              \* call sites of the tool sources that threw in this turn
    MCP_TOOLS,          \* route.ts:129
    WORKFLOW_TOOLS,     \* route.ts:139
    APP_DEFAULT_TOOLS,  \* route.ts:149
    task,               \* per in-progress part: state of its async resolution
    execLog,            \* per toolCallId: executor invocations made by the gate
    stream,             \* bag of the events written to the turn's output stream
                        \* (dataStream); calls are told apart by toolCallId
    vercelAITooles,     \* route.ts:195, the registry handed to streamText
    modelCalls,         \* tool calls issued by the model in this turn
    thread,             \* tool calls whose resolved output is persisted in the thread
    wfPc,               \* position of one workflowToVercelAITool.execute call
    engine,             \* the DAG engine's run: phase and node executions
    history,            \* shared.chat.ts:245
    toolResult,         \* shared.chat.ts:246
    wfStream,           \* snapshots the adapter wrote to dataStream
    returned,           \* what execute resolved to
    events,             \* the events the engine delivered to the subscriber
    abortSignal,        \* the turn's cancellation signal (request.signal)
    exited,             \* executor.exit() has been called
    sanPc,              \* position of one sanitizeUIMessagesForConversion call
    messages,           \* its argument; the parts are repaired in place
    given,              \* the argument as it was when the call was made
    sanPos,             \* the message and the part the loops have reached
    validParts,         \* shared.chat.ts:534
    processedMessages,  \* shared.chat.ts:525
    handed,             \* the histories handed to convertToModelMessages, in order
    modelMessages,      \* route.ts:254
    invocations,        \* the histories streamText was invoked with
    store,              \* the thread's persisted messages (chatRepository)
    wouldPersist,       \* what onFinish would leave in the store, taken when
                        \* the first conversion is called
    threadMentions,     \* prompt-input.tsx:85, the store's mentions of the thread
    renderedMentions,   \* prompt-input.tsx:94, `mentions` as of the last render
    httpResponse        \* the Response POST returned before the stream, if any

turnVars == <<pc, req, message, threw, MCP_TOOLS, WORKFLOW_TOOLS,
              APP_DEFAULT_TOOLS, task, execLog, stream, vercelAITooles,
              modelCalls, thread>>
vars == <<pc, req, message, threw, MCP_TOOLS, WORKFLOW_TOOLS,
          APP_DEFAULT_TOOLS, task, execLog, stream, vercelAITooles,
          modelCalls, thread, wfPc, engine, history, toolResult, wfStream,
          returned, events, abortSignal, exited, sanPc, messages, given,
          sanPos, validParts, processedMessages, handed, modelMessages,
          invocations, store, wouldPersist, threadMentions,
          renderedMentions, httpResponse>>
uiVars == <<threadMentions, renderedMentions>>
convVars == <<handed, modelMessages, invocations, store, wouldPersist>>
sanVars == <<sanPc, messages, given, sanPos, validParts, processedMessages>>
wfVars == <<wfPc, engine, history, toolResult, wfStream, returned, events,
            abortSignal, exited>>

----------------------------------------------------------------------------
\* Bounds

MaxParts == 2

----------------------------------------------------------------------------
\* Names and registries

NX == <<"X">>
NM == <<"M">>
NW == <<"W">>
NA == <<"A">>
NY == <<"Y">>

EmptyReg == [k \in {} |-> 0]

\* { ...a, ...b }
Spread(a, b) ==
    [k \in (DOMAIN a) \cup (DOMAIN b) |-> IF k \in DOMAIN b THEN b[k] ELSE a[k]]

Tool(src, name, serverId, origin, hasExec) ==
    [src |-> src, name |-> name, serverId |-> serverId, origin |-> origin,
     exec |-> hasExec]

\* mcpClientsManager.tools(): the raw remote-protocol tools, keyed by tool name
\* server s1 has two tools, and its second one has the origin name of the tool
\* of server s2
McpRawTools ==
    (NX :> Tool("mcp", NX, "s1", <<"x">>, TRUE)) @@
    (NY :> Tool("mcp", NY, "s1", <<"m">>, TRUE)) @@
    (NM :> Tool("mcp", NM, "s2", <<"m">>, TRUE))

\* workflowRepository: the stored workflows (id -> name)
WorkflowStore ==
    [w1 |-> <<"w">>, w2 |-> <<"W">>, w3 |-> <<"w", " ", "x">>,
     w4 |-> <<"w", "1">>]

\* APP_DEFAULT_TOOL_KIT: toolkit -> its tools
APP_DEFAULT_TOOL_KIT ==
    [webSearch |-> (NX :> Tool("app", NX, "", <<>>, TRUE)),
     code      |-> (NA :> Tool("app", NA, "", <<>>, TRUE))]

AppDefaultToolkit == {"webSearch", "code"}

----------------------------------------------------------------------------
\* Mentions and allow-lists

Mention(type, serverId, name, workflowId) ==
    [type |-> type, serverId |-> serverId, name |-> name, workflowId |-> workflowId]

McpServerMention(serverId) == Mention("mcpServer", serverId, <<>>, "")
McpToolMention(serverId, origin) == Mention("mcpTool", serverId, origin, "")
WorkflowMention(id) == Mention("workflow", "", <<>>, id)
DefaultToolMention(name) == Mention("defaultTool", "", name, "")

RECURSIVE MentionsByServerOverwriting(_, _, _)
\* the reduce with a tool mention replacing what its server had so far
MentionsByServerOverwriting(tools, ms, acc) ==
    IF ms = <<>> THEN acc
    ELSE LET m == Head(ms)
             names == IF m.type = "mcpServer"
                      THEN {tools[k].origin : k \in DOMAIN tools}
                      ELSE {m.name}
         IN MentionsByServerOverwriting(tools, Tail(ms),
                                        Spread(acc, (m.serverId :> names)))

RECURSIVE MentionsByServer(_, _, _)
\* the reduce of filterMCPToolsByMentions: serverId -> admitted origin names
MentionsByServer(tools, ms, acc) ==
    IF ms = <<>> THEN acc
    ELSE LET m == Head(ms)
             names == IF m.type = "mcpServer"
                      THEN {tools[k].origin : k \in DOMAIN tools}
                      ELSE (IF m.serverId \in DOMAIN acc THEN acc[m.serverId] ELSE {})
                           \cup {m.name}
         IN MentionsByServer(tools, Tail(ms),
                             Spread(acc, (m.serverId :> names)))

\* the filter admitting a mentioned origin name on every server
filterMCPToolsByMentionsOnAnyServer(tools, mentions) ==
    IF Len(mentions) = 0 THEN tools
    ELSE LET toolMentions ==
                 SelectSeq(mentions,
                           LAMBDA m : m.type = "mcpTool" \/ m.type = "mcpServer")
             metionsByServer == MentionsByServer(tools, toolMentions, EmptyReg)
             keep == {k \in DOMAIN tools :
                        \E sid \in DOMAIN metionsByServer :
                           tools[k].origin \in metionsByServer[sid]}
         IN [k \in keep |-> tools[k]]

filterMCPToolsByMentions(tools, mentions) ==
    IF Len(mentions) = 0 THEN tools
    ELSE LET toolMentions ==
                 SelectSeq(mentions,
                           LAMBDA m : m.type = "mcpTool" \/ m.type = "mcpServer")
             metionsByServer == MentionsByServer(tools, toolMentions, EmptyReg)
             keep == {k \in DOMAIN tools :
                        /\ tools[k].serverId \in DOMAIN metionsByServer
                        /\ tools[k].origin \in metionsByServer[tools[k].serverId]}
         IN [k \in keep |-> tools[k]]

\* an allow-list is [defined |-> BOOLEAN, servers |-> serverId -> set of origin names]
filterMCPToolsByAllowedMCPServers(tools, allowedMcpServers) ==
    IF ~allowedMcpServers.defined \/ DOMAIN allowedMcpServers.servers = {}
    THEN EmptyReg
    ELSE LET keep == {k \in DOMAIN tools :
                        /\ tools[k].serverId \in DOMAIN allowedMcpServers.servers
                        /\ tools[k].origin \in
                               allowedMcpServers.servers[tools[k].serverId]}
         IN [k \in keep |-> tools[k]]

\* safe(() => mcpClientsManager.tools()).map(filter).orElse({})
loadMcpTools(mentions, allowedMcpServers, managerThrows) ==
    IF managerThrows THEN EmptyReg
    ELSE IF Len(mentions) > 0
         THEN filterMCPToolsByMentions(McpRawTools, mentions)
         ELSE filterMCPToolsByAllowedMCPServers(McpRawTools, allowedMcpServers)

----------------------------------------------------------------------------
\* Workflow tools

Lower == {"w", "x", "f"}
Upper == {"W", "X", "F"}
Digit == {"1"}
toUpperCase(c) ==
    CASE c = "w" -> "W" [] c = "x" -> "X" [] c = "f" -> "F" [] OTHER -> c

RECURSIVE TrimLeft(_)
TrimLeft(s) == IF s # <<>> /\ Head(s) = " " THEN TrimLeft(Tail(s)) ELSE s

RECURSIVE TrimRight(_)
TrimRight(s) ==
    IF s # <<>> /\ s[Len(s)] = " " THEN TrimRight(SubSeq(s, 1, Len(s) - 1)) ELSE s

RECURSIVE DashSpaces(_)
\* replace(/\s+/g, "-")
DashSpaces(s) ==
    IF s = <<>> THEN <<>>
    ELSE IF Head(s) = " "
         THEN <<"-">> \o DashSpaces(TrimLeft(s))
         ELSE <<Head(s)>> \o DashSpaces(Tail(s))

\* name.replace(/[^a-zA-Z0-9\s]/g, "").trim().replace(/\s+/g, "-").toUpperCase()
WorkflowToolName(name) ==
    LET kept == SelectSeq(name, LAMBDA c : c \in Lower \cup Upper \cup Digit \cup {" "})
        dashed == DashSpaces(TrimRight(TrimLeft(kept)))
    IN [i \in 1..Len(dashed) |-> toUpperCase(dashed[i])]

workflowToVercelAITool(id, name) ==
    [src |-> "workflow", name |-> WorkflowToolName(name), serverId |-> id,
     origin |-> name, exec |-> TRUE]

RECURSIVE workflowToVercelAITools(_)
\* the reduce keyed by _toolName: a later workflow replaces an earlier one
workflowToVercelAITools(workflows) ==
    IF workflows = <<>> THEN EmptyReg
    ELSE LET n == Len(workflows)
             cur == workflowToVercelAITool(workflows[n].id, workflows[n].name)
         IN Spread(workflowToVercelAITools(SubSeq(workflows, 1, n - 1)),
                   (cur.name :> cur))

RECURSIVE selectToolByIds(_)
\* workflowRepository.selectToolByIds: the stored workflows among the ids
selectToolByIds(ids) ==
    IF ids = <<>> THEN <<>>
    ELSE (IF Head(ids) \in DOMAIN WorkflowStore
          THEN <<[id |-> Head(ids), name |-> WorkflowStore[Head(ids)]]>>
          ELSE <<>>) \o selectToolByIds(Tail(ids))

loadWorkFlowTools(mentions, storeThrows) ==
    IF Len(mentions) > 0
    THEN IF storeThrows THEN EmptyReg
         ELSE LET wms == SelectSeq(mentions, LAMBDA m : m.type = "workflow")
                  ids == [i \in 1..Len(wms) |-> wms[i].workflowId]
              IN workflowToVercelAITools(selectToolByIds(ids))
    ELSE workflowToVercelAITools(<<>>)

----------------------------------------------------------------------------
\* Built-in toolkit

RECURSIVE SpreadAll(_, _)
\* reduce((acc, t) => ({ ...acc, ...f(t) }), {}) over a set of registries
SpreadAll(regs, acc) ==
    IF regs = {} THEN acc
    ELSE LET r == CHOOSE x \in regs : TRUE
         IN SpreadAll(regs \ {r}, Spread(acc, r))

\* a loader that does not filter the toolkit by the mentions
loadAppDefaultToolsUnfiltered(mentions, allowedAppDefaultToolkit, mapThrows) ==
    IF mapThrows THEN EmptyReg
    ELSE LET kits == IF allowedAppDefaultToolkit.defined
                     THEN allowedAppDefaultToolkit.kits
                     ELSE AppDefaultToolkit
         IN SpreadAll({APP_DEFAULT_TOOL_KIT[kit] :
                          kit \in kits \cap DOMAIN APP_DEFAULT_TOOL_KIT},
                      EmptyReg)

\* allowedAppDefaultToolkit is [defined |-> BOOLEAN, kits |-> set of toolkit keys]
loadAppDefaultTools(mentions, allowedAppDefaultToolkit, mapThrows) ==
    IF mapThrows THEN EmptyReg
    ELSE IF Len(mentions) > 0
         THEN LET defaultToolMentions ==
                      SelectSeq(mentions, LAMBDA m : m.type = "defaultTool")
                  allowed(t) ==
                      LET keep == {k \in DOMAIN t :
                                     \E i \in 1..Len(defaultToolMentions) :
                                        defaultToolMentions[i].name = k}
                      IN [k \in keep |-> t[k]]
              IN SpreadAll({allowed(APP_DEFAULT_TOOL_KIT[kit]) :
                               kit \in DOMAIN APP_DEFAULT_TOOL_KIT}, EmptyReg)
         ELSE LET kits == IF allowedAppDefaultToolkit.defined
                          THEN allowedAppDefaultToolkit.kits
                          ELSE AppDefaultToolkit
              IN SpreadAll({APP_DEFAULT_TOOL_KIT[kit] :
                               kit \in kits \cap DOMAIN APP_DEFAULT_TOOL_KIT},
                           EmptyReg)

\* createTool({ inputSchema, description }) for every entry: no executor
excludeToolExecution(tool) ==
    [k \in DOMAIN tool |-> [tool[k] EXCEPT !.exec = FALSE]]

----------------------------------------------------------------------------
\* Tool parts, outputs and the manual confirmation gate

Out(kind, confirm, tool, src, input, error) ==
    [kind |-> kind, confirm |-> confirm, tool |-> tool, src |-> src,
     input |-> input, error |-> error]

\* ManualToolConfirmTag.create({ confirm })
ManualToolConfirm(confirm) == Out("confirm", confirm, <<>>, "", 0, "")
MANUAL_REJECT_RESPONSE_PROMPT == Out("reject", FALSE, <<>>, "", 0, "")
NoOutput == Out("none", FALSE, <<>>, "", 0, "")
\* what the executor of tool t returns for an input
ExecutorResult(t, input, error) == Out("result", FALSE, t.name, t.src, input, error)
\* { isError: true, statusMessage: `tool call fail: ${toolName}`, error }
ToolCallFail(toolName, error) == Out("error", FALSE, toolName, "", 0, error)

ToolPart(name, toolCallId, state, input, output) ==
    [type |-> <<"tool", "-">> \o name, toolCallId |-> toolCallId,
     state |-> state, input |-> input, output |-> output]

\* isToolUIPart of the AI SDK: the type starts with "tool-"
isToolUIPart(part) ==
    Len(part.type) >= 2 /\ part.type[1] = "tool" /\ part.type[2] = "-"

RECURSIVE AfterFirstDash(_)
AfterFirstDash(s) ==
    IF s = <<>> THEN <<>>
    ELSE IF Head(s) = "-" THEN Tail(s) ELSE AfterFirstDash(Tail(s))

\* part.type.split("-").slice(1).join("-")
getToolName(part) == AfterFirstDash(part.type)

isManualToolConfirm(output) == output.kind = "confirm"

\* a gate that executes a confirmed-or-not call without reading the confirmation
GatePlanIgnoringConfirm(part, tools) ==
    LET toolName == getToolName(part)
        P(do, via, error) ==
            [do |-> do, via |-> via, tool |-> toolName, error |-> error]
    IN IF toolName \notin DOMAIN tools
       THEN P("fail", "", "tool not found")
       ELSE IF ~isManualToolConfirm(part.output)
       THEN P("fail", "", "manual tool confirm not found")
       ELSE IF tools[toolName].src = "mcp"
       THEN P("invoke", "toolCall", "")
       ELSE P("invoke", "execute", "")

\* The synchronous part of manualToolExecuteByLastMessage: either a value
\* (rejection notice, failure) or the invocation of one executor.
\* tool.execute!(...) on a descriptor without executor throws a TypeError.
GatePlan(part, tools) ==
    LET toolName == getToolName(part)
        P(do, via, error) ==
            [do |-> do, via |-> via, tool |-> toolName, error |-> error]
    IN IF toolName \notin DOMAIN tools
       THEN P("fail", "", "tool not found")
       ELSE IF ~isManualToolConfirm(part.output)
       THEN P("fail", "", "manual tool confirm not found")
       ELSE IF ~part.output.confirm
       THEN P("reject", "", "")
       ELSE IF tools[toolName].src = "workflow"
       THEN (IF tools[toolName].exec THEN P("invoke", "execute", "")
             ELSE P("fail", "", "execute is not a function"))
       ELSE IF tools[toolName].src = "mcp"
       THEN P("invoke", "toolCall", "")
       ELSE (IF tools[toolName].exec THEN P("invoke", "execute", "")
             ELSE P("fail", "", "execute is not a function"))

\* a gate without the ifFail branch: a failure rejects instead of becoming a value
GateSettleWithoutIfFail(part, tools, outcome) ==
    LET plan == GatePlan(part, tools)
    IN CASE plan.do = "fail" \/ (plan.do = "invoke" /\ outcome = "throw") ->
              [rejected |-> TRUE, value |-> NoOutput]
         [] plan.do = "reject" ->
              [rejected |-> FALSE, value |-> MANUAL_REJECT_RESPONSE_PROMPT]
         [] OTHER ->
              [rejected |-> FALSE,
               value |-> ExecutorResult(tools[plan.tool], part.input, "")]

\* a gate that answers a rejected call with a failure value
GateSettleRejectAsFailure(part, tools, outcome) ==
    LET plan == GatePlan(part, tools)
    IN CASE plan.do = "fail" ->
              [rejected |-> FALSE, value |-> ToolCallFail(plan.tool, plan.error)]
         [] plan.do = "reject" ->
              [rejected |-> FALSE, value |-> ToolCallFail(plan.tool, "rejected")]
         [] plan.do = "invoke" /\ outcome = "throw" ->
              [rejected |-> FALSE, value |-> ToolCallFail(plan.tool, "executor error")]
         [] plan.do = "invoke" /\ outcome = "errorValue" ->
              [rejected |-> FALSE,
               value |-> ExecutorResult(tools[plan.tool], part.input, "run failed")]
         [] OTHER ->
              [rejected |-> FALSE,
               value |-> ExecutorResult(tools[plan.tool], part.input, "")]

\* What manualToolExecuteByLastMessage settles to: .ifFail(...).unwrap()
\* turns every throw or rejection into a value, so it never rejects.
GateSettle(part, tools, outcome) ==
    LET plan == GatePlan(part, tools)
    IN CASE plan.do = "fail" ->
              [rejected |-> FALSE, value |-> ToolCallFail(plan.tool, plan.error)]
         [] plan.do = "reject" ->
              [rejected |-> FALSE, value |-> MANUAL_REJECT_RESPONSE_PROMPT]
         [] plan.do = "invoke" /\ outcome = "throw" ->
              [rejected |-> FALSE, value |-> ToolCallFail(plan.tool, "executor error")]
         [] plan.do = "invoke" /\ outcome = "errorValue" ->
              [rejected |-> FALSE,
               value |-> ExecutorResult(tools[plan.tool], part.input, "run failed")]
         [] OTHER ->
              [rejected |-> FALSE,
               value |-> ExecutorResult(tools[plan.tool], part.input, "")]

\* the ways the executor of a tool can end: a workflow tool's execute never
\* throws (it resolves to a result or to an error value)
ExecutorOutcomes(t) ==
    IF t.src = "workflow" THEN {"ok", "errorValue"} ELSE {"ok", "throw"}

\* an extraction that takes the tool parts in any state
extractInProgressToolPartOfAnyState(msg) ==
    IF msg.role # "assistant" THEN <<>>
    ELSE IF msg.toolChoice # "manual" THEN <<>>
    ELSE SelectSeq([i \in 1..Len(msg.parts) |-> i],
                   LAMBDA i : /\ isToolUIPart(msg.parts[i])
                              /\ isManualToolConfirm(msg.parts[i].output))

\* the indexes of message.parts that extractInProgressToolPart returns
extractInProgressToolPart(msg) ==
    IF msg.role # "assistant" THEN <<>>
    ELSE IF msg.toolChoice # "manual" THEN <<>>
    ELSE SelectSeq([i \in 1..Len(msg.parts) |-> i],
                   LAMBDA i : /\ isToolUIPart(msg.parts[i])
                              /\ msg.parts[i].state = "output-available"
                              /\ isManualToolConfirm(msg.parts[i].output))

----------------------------------------------------------------------------
\* Requests

ToolChoices == {"auto", "manual", "none"}

MentionLists ==
    { <<>>,
      <<WorkflowMention("w1")>>,
      <<McpToolMention("s1", <<"x">>), WorkflowMention("w1")>>,
      <<McpServerMention("s2"), WorkflowMention("w1"), DefaultToolMention(NX)>> }

AllowedMcpServersOptions ==
    { [defined |-> FALSE, servers |-> EmptyReg],
      [defined |-> TRUE, servers |-> [s1 |-> {<<"x">>}, s2 |-> {<<"m">>}]] }

AllowedAppDefaultToolkitOptions ==
    { [defined |-> FALSE, kits |-> {}] }

PendingNames == {NX, NW}

\* the tool parts a client can send back: part i carries toolCallId i and input 10*i
PartSeqs ==
    UNION { { [i \in 1..n |->
                 ToolPart(f[i][1], i, "output-available", 10 * i,
                          ManualToolConfirm(f[i][2]))] :
              f \in [1..n -> PendingNames \X BOOLEAN] } : n \in 0..MaxParts }

Messages ==
    { [id |-> "u1", role |-> "user", toolChoice |-> "auto", parts |-> <<>>] }
    \cup { [id |-> "a1", role |-> "assistant", toolChoice |-> "manual", parts |-> ps] :
             ps \in PartSeqs \ {<<>>} }
    \cup { [id |-> "a1", role |-> "assistant", toolChoice |-> "auto", parts |-> ps] :
             ps \in {q \in PartSeqs : Len(q) = 1} }

RequestBody(tc, st, ms, am, aa) ==
    [toolChoice |-> tc, supportToolCall |-> st, mentions |-> ms,
     allowedMcpServers |-> am, allowedAppDefaultToolkit |-> aa]

\* The request bodies: every tool choice with every mention list; the MCP
\* allow-list varies where the code reads it (no mentions); one chat model
\* without tool-call support.
Requests ==
    UNION { { RequestBody(tc, TRUE, ms, am, aa) :
                tc \in ToolChoices,
                am \in {a \in AllowedMcpServersOptions : a.defined => ms = <<>>},
                aa \in AllowedAppDefaultToolkitOptions } : ms \in MentionLists }
    \cup { RequestBody("auto", FALSE, <<>>, am, aa) :
             am \in {a \in AllowedMcpServersOptions : a.defined},
             aa \in AllowedAppDefaultToolkitOptions }

isToolCallAllowed(r) ==
    r.supportToolCall /\ (r.toolChoice # "none" \/ Len(r.mentions) > 0)

isManual(r, msg) == r.toolChoice = "manual" \/ msg.toolChoice = "manual"

NoTask == [state |-> "none", outcome |-> "", payload |-> NoOutput]

\* a gate that resolves against the descriptors advertised under manual mode
GateToolsAdvertised(mcp, workflow, app) ==
    Spread(excludeToolExecution(Spread(mcp, workflow)), app)

\* the registry the gate resolves pending calls against (route.ts:164)
GateTools(mcp, workflow, app) == Spread(Spread(mcp, workflow), app)

\* a composer that never suppresses executors
BindToolsKeepingExecutors(mcp, workflow, app, manual) ==
    Spread(Spread(mcp, workflow), app)

\* a composer that lets the other sources override the built-in toolkit
BindToolsAppFirst(mcp, workflow, app, manual) ==
    LET t == Spread(mcp, workflow)
        bindingTools == IF manual THEN excludeToolExecution(t) ELSE t
    IN Spread(app, bindingTools)

\* the registry handed to the model (route.ts:195-207)
BindTools(mcp, workflow, app, manual) ==
    LET t == Spread(mcp, workflow)
        bindingTools == IF manual THEN excludeToolExecution(t) ELSE t
    IN Spread(bindingTools, app)

\* a join that continues as soon as one resolution has finished
AnyResolved(tasks) ==
    DOMAIN tasks = {} \/ \E i \in DOMAIN tasks : tasks[i].state = "done"

\* Promise.all of the resolutions has resolved
AllResolved(tasks) == \A i \in DOMAIN tasks : tasks[i].state = "done"

----------------------------------------------------------------------------
\* One chat turn (route.ts POST)

TurnInit ==
    /\ pc = "idle"
    /\ req = CHOOSE r \in Requests : TRUE
    /\ message = CHOOSE m \in Messages : m.role = "user"
    /\ threw = {}
    /\ MCP_TOOLS = EmptyReg
    /\ WORKFLOW_TOOLS = EmptyReg
    /\ APP_DEFAULT_TOOLS = EmptyReg
    /\ task = <<>>
    /\ execLog = <<>>
    /\ stream = EmptyBag
    /\ vercelAITooles = EmptyReg
    /\ modelCalls = {}
    /\ thread = {}

\* Several calls wait for a confirmation only in a chat that runs in manual
\* mode with tools mentioned: the requests that carry such a message are the
\* manual ones with more than one mention.
SeveralPending(m) == Len(m.parts) > 1
FromManualChat(r) == r.toolChoice = "manual" /\ Len(r.mentions) > 1

\* a request arrives and passes parsing, session and thread checks
Request ==
    /\ pc = "idle"
    /\ \E r \in Requests, m \in Messages :
          /\ SeveralPending(m) => FromManualChat(r)
          /\ req' = r
          /\ message' = m
    /\ pc' = "getClients"
    /\ UNCHANGED <<threw, MCP_TOOLS, WORKFLOW_TOOLS, APP_DEFAULT_TOOLS, task,
                   execLog, stream, vercelAITooles, modelCalls, thread,
                   wfVars, sanVars, convVars, uiVars, httpResponse>>

\* the request-scoped state is dropped when the response ends
DropTurnState ==
    /\ req' = CHOOSE r \in Requests : TRUE
    /\ message' = CHOOSE m \in Messages : m.role = "user"
    /\ threw' = {}
    /\ MCP_TOOLS' = EmptyReg
    /\ WORKFLOW_TOOLS' = EmptyReg
    /\ APP_DEFAULT_TOOLS' = EmptyReg
    /\ task' = <<>>
    /\ execLog' = <<>>
    /\ stream' = EmptyBag
    /\ vercelAITooles' = EmptyReg
    /\ modelCalls' = {}
    /\ pc' = "idle"

\* the execute callback threw: the stream reports the error and the turn ends
\* without model invocation
TurnFailed ==
    /\ pc = "failed"
    /\ DropTurnState
    /\ UNCHANGED <<thread, wfVars, sanVars, convVars, uiVars, httpResponse>>

\* route.ts:124  await mcpClientsManager.getClients()
GetClients ==
    /\ pc = "getClients"
    /\ \/ pc' = "mcpTools" /\ UNCHANGED threw
       \/ pc' = "failed" /\ threw' = threw \cup {"getClients"}
    /\ UNCHANGED <<req, message, MCP_TOOLS, WORKFLOW_TOOLS, APP_DEFAULT_TOOLS,
                   task, execLog, stream, vercelAITooles, modelCalls, thread,
                   wfVars, sanVars, convVars, uiVars, httpResponse>>

\* route.ts:125  await mcpClientsManager.tools(), outside any safe()
CountMcpTools ==
    /\ pc = "mcpTools"
    /\ \/ pc' = "loadMcp" /\ UNCHANGED threw
       \/ pc' = "failed" /\ threw' = threw \cup {"mcpTools"}
    /\ UNCHANGED <<req, message, MCP_TOOLS, WORKFLOW_TOOLS, APP_DEFAULT_TOOLS,
                   task, execLog, stream, vercelAITooles, modelCalls, thread,
                   wfVars, sanVars, convVars, uiVars, httpResponse>>

\* the MCP load without the errorIf guard
LoadMcpUnguarded ==
    /\ pc = "loadMcp"
    /\ \E managerThrows \in BOOLEAN :
          /\ MCP_TOOLS' = loadMcpTools(req.mentions, req.allowedMcpServers,
                                       managerThrows)
          /\ threw' = IF managerThrows THEN threw \cup {"loadMcp"} ELSE threw
    /\ pc' = "loadWf"
    /\ UNCHANGED <<req, message, WORKFLOW_TOOLS, APP_DEFAULT_TOOLS, task,
                   execLog, stream, vercelAITooles, modelCalls, thread, wfVars,
                   sanVars, convVars, uiVars, httpResponse>>

\* route.ts:129-137
LoadMcp ==
    /\ pc = "loadMcp"
    /\ IF ~isToolCallAllowed(req)
       THEN MCP_TOOLS' = EmptyReg /\ UNCHANGED threw
       ELSE \E managerThrows \in BOOLEAN :
               /\ MCP_TOOLS' = loadMcpTools(req.mentions, req.allowedMcpServers,
                                            managerThrows)
               /\ threw' = IF managerThrows THEN threw \cup {"loadMcp"} ELSE threw
    /\ pc' = "loadWf"
    /\ UNCHANGED <<req, message, WORKFLOW_TOOLS, APP_DEFAULT_TOOLS,
                   task, execLog, stream, vercelAITooles, modelCalls, thread,
                   wfVars, sanVars, convVars, uiVars, httpResponse>>

\* route.ts:139-147
LoadWorkflow ==
    /\ pc = "loadWf"
    /\ IF ~isToolCallAllowed(req) \/ Len(req.mentions) = 0
       THEN /\ WORKFLOW_TOOLS' = IF isToolCallAllowed(req)
                                 THEN loadWorkFlowTools(req.mentions, FALSE)
                                 ELSE EmptyReg
            /\ UNCHANGED threw
       ELSE \E storeThrows \in BOOLEAN :
               /\ WORKFLOW_TOOLS' = loadWorkFlowTools(req.mentions, storeThrows)
               /\ threw' = IF storeThrows THEN threw \cup {"loadWf"} ELSE threw
    /\ pc' = "loadApp"
    /\ UNCHANGED <<req, message, MCP_TOOLS, APP_DEFAULT_TOOLS,
                   task, execLog, stream, vercelAITooles, modelCalls, thread,
                   wfVars, sanVars, convVars, uiVars, httpResponse>>

\* route.ts:149-157
LoadAppDefault ==
    /\ pc = "loadApp"
    /\ IF ~isToolCallAllowed(req)
       THEN APP_DEFAULT_TOOLS' = EmptyReg /\ UNCHANGED threw
       ELSE \E mapThrows \in BOOLEAN :
               /\ APP_DEFAULT_TOOLS' =
                      loadAppDefaultTools(req.mentions, req.allowedAppDefaultToolkit,
                                          mapThrows)
               /\ threw' = IF mapThrows THEN threw \cup {"loadApp"} ELSE threw
    /\ pc' = "extract"
    /\ UNCHANGED <<req, message, MCP_TOOLS, WORKFLOW_TOOLS,
                   task, execLog, stream, vercelAITooles, modelCalls, thread,
                   wfVars, sanVars, convVars, uiVars, httpResponse>>

\* route.ts:160-166: the synchronous start of the resolution of every part in
\* inProgressToolParts, in part order; a confirmed call invokes its executor here
StartResolutions(inProgressToolParts) ==
    LET tools == GateTools(MCP_TOOLS, WORKFLOW_TOOLS, APP_DEFAULT_TOOLS)
        plan(i) == GatePlan(message.parts[i], tools)
        inProgress(i) == \E j \in 1..Len(inProgressToolParts) :
                            inProgressToolParts[j] = i
    IN /\ task' = [i \in 1..Len(message.parts) |->
                     IF inProgress(i)
                     THEN [state |-> IF plan(i).do = "invoke"
                                     THEN "running" ELSE "settled",
                           outcome |-> "",
                           payload |-> message.parts[i].output]
                     ELSE NoTask]
       /\ execLog' = [i \in 1..Len(message.parts) |->
                        IF inProgress(i) /\ plan(i).do = "invoke"
                        THEN <<[via |-> plan(i).via,
                                tool |-> tools[plan(i).tool],
                                input |-> message.parts[i].input,
                                toolCallId |-> message.parts[i].toolCallId]>>
                        ELSE <<>>]

\* route.ts:158-166
StartGate ==
    /\ pc = "extract"
    /\ StartResolutions(extractInProgressToolPart(message))
    /\ pc' = "gate"
    /\ UNCHANGED <<req, message, threw, MCP_TOOLS, WORKFLOW_TOOLS,
                   APP_DEFAULT_TOOLS, stream, vercelAITooles, modelCalls, thread,
                   wfVars, sanVars, convVars, uiVars, httpResponse>>

\* route.ts:162-173: a resolution settles; its continuation stores the output in
\* the part and writes one tool-output-available event
FinishResolution(i) ==
    /\ pc = "gate"
    /\ i \in DOMAIN task
    /\ task[i].state \in {"running", "settled"}
    /\ LET tools == GateTools(MCP_TOOLS, WORKFLOW_TOOLS, APP_DEFAULT_TOOLS)
           part == message.parts[i]
       IN \E outcome \in (IF task[i].state = "running"
                          THEN ExecutorOutcomes(tools[getToolName(part)])
                          ELSE {""}) :
             LET settled == GateSettle(part, tools, outcome)
             IN IF settled.rejected
                THEN \* Promise.all rejects and the execute callback throws
                     /\ pc' = "failed"
                     /\ task' = [task EXCEPT ![i].state = "rejected",
                                              ![i].outcome = outcome]
                     /\ UNCHANGED <<message, stream>>
                ELSE /\ pc' = pc
                     /\ task' = [task EXCEPT ![i].state = "done",
                                              ![i].outcome = outcome]
                     /\ message' = [message EXCEPT !.parts[i].output = settled.value]
                     /\ stream' = stream (+)
                                      SetToBag({[type |-> "tool-output-available",
                                                 toolCallId |-> part.toolCallId,
                                                 output |-> settled.value]})
    /\ UNCHANGED <<req, threw, MCP_TOOLS, WORKFLOW_TOOLS, APP_DEFAULT_TOOLS,
                   execLog, vercelAITooles, modelCalls, thread,
                   wfVars, sanVars, convVars, uiVars, httpResponse>>

\* route.ts:176-208: Promise.all has resolved; the registry for the model is built
Compose ==
    /\ pc = "gate"
    /\ AllResolved([i \in {j \in DOMAIN task : task[j].state # "none"} |-> task[i]])
    /\ vercelAITooles' = BindTools(MCP_TOOLS, WORKFLOW_TOOLS, APP_DEFAULT_TOOLS,
                                   isManual(req, message))
    /\ pc' = "streamText"
    /\ UNCHANGED <<req, message, threw, MCP_TOOLS, WORKFLOW_TOOLS,
                   APP_DEFAULT_TOOLS, task, execLog, stream, modelCalls, thread,
                   wfVars, sanVars, convVars, uiVars, httpResponse>>

\* route.ts:463-484: model invocation begins
StreamText ==
    /\ pc = "streamText"
    /\ pc' = "model"
    /\ UNCHANGED <<req, message, threw, MCP_TOOLS, WORKFLOW_TOOLS,
                   APP_DEFAULT_TOOLS, task, execLog, stream, vercelAITooles,
                   modelCalls, thread,
                   wfVars, sanVars, convVars, uiVars, httpResponse>>

\* the model issues a call to a tool of its registry: the executor runs only
\* when the descriptor has one
ModelToolCall(name) ==
    /\ pc = "model"
    /\ modelCalls = {}
    /\ name \in DOMAIN vercelAITooles
    /\ modelCalls' = {[tool |-> vercelAITooles[name],
                       ran |-> vercelAITooles[name].exec]}
    /\ UNCHANGED <<pc, req, message, threw, MCP_TOOLS, WORKFLOW_TOOLS,
                   APP_DEFAULT_TOOLS, task, execLog, stream, vercelAITooles,
                   thread, wfVars, sanVars, convVars, uiVars, httpResponse>>

\* route.ts:488-510 onFinish: the message parts are persisted with their outputs
Finish ==
    /\ pc = "model"
    /\ thread' = thread \cup
                   {message.parts[i].toolCallId :
                      i \in {j \in 1..Len(message.parts) :
                               message.parts[j].output.kind = "result"}}
    /\ DropTurnState
    /\ UNCHANGED <<wfVars, sanVars, convVars, uiVars, httpResponse>>

TurnNext ==
    \/ Request
    \/ TurnFailed
    \/ GetClients
    \/ CountMcpTools
    \/ LoadMcp
    \/ LoadWorkflow
    \/ LoadAppDefault
    \/ StartGate
    \/ \E i \in 1..MaxParts : FinishResolution(i)
    \/ Compose
    \/ StreamText
    \/ \E name \in {NX, NM, NW, NA} : ModelToolCall(name)
    \/ Finish

----------------------------------------------------------------------------
\* The workflow-to-tool adapter: one call of workflowToVercelAITool.execute

MaxExec == 2

\* the stored structure of workflow w1: node id -> name and kind, with the
\* output the node produces when it succeeds ("" stands for a falsy output)
WorkflowNodes ==
    [n1 |-> [name |-> "start", kind |-> "input", output |-> "query"],
     n2 |-> [name |-> "answer", kind |-> "output", output |-> "text"],
     n3 |-> [name |-> "empty", kind |-> "output", output |-> ""]]

\* e.node.name of a node event: a node of the workflow the engine was created
\* from, or the SKIP marker
EventNodes == {"n1", "n2", "n3", "SKIP"}

NoError == [present |-> FALSE, name |-> "", message |-> ""]
\* the errors a lookup, a node or a run can fail with (with or without a name)
Errors == { [present |-> TRUE, name |-> n, message |-> "boom"] : n \in {"", "Err"} }

\* { name: e.name || "ERROR", message: errorToString(e) }
ErrorField(e) ==
    [present |-> TRUE,
     name |-> IF e.name = "" THEN "ERROR" ELSE e.name,
     message |-> e.message]

NoResult == [present |-> FALSE, input |-> "", output |-> ""]

\* a handler that puts the new entry in front (unshift instead of push)
OnNodeStartUnshift(h, e) ==
    IF e.node \notin DOMAIN WorkflowNodes THEN h
    ELSE <<[id |-> e.nodeExecutionId,
            name |-> WorkflowNodes[e.node].name,
            status |-> "running",
            kind |-> WorkflowNodes[e.node].kind,
            result |-> NoResult,
            error |-> NoError,
            ended |-> FALSE]>> \o h

\* shared.chat.ts:278-289
OnNodeStart(h, e) ==
    IF e.node \notin DOMAIN WorkflowNodes THEN h
    ELSE Append(h, [id |-> e.nodeExecutionId,
                    name |-> WorkflowNodes[e.node].name,
                    status |-> "running",
                    kind |-> WorkflowNodes[e.node].kind,
                    result |-> NoResult,
                    error |-> NoError,
                    ended |-> FALSE])

\* history.find((r) => r.id == e.nodeExecutionId): index of the first match, or 0
FindEntry(h, id) ==
    IF \E i \in 1..Len(h) : h[i].id = id
    THEN CHOOSE i \in 1..Len(h) :
            h[i].id = id /\ \A j \in 1..(i - 1) : h[j].id # id
    ELSE 0

\* a handler that matches the entry by node name instead of node execution id
OnNodeEndByName(h, e) ==
    LET hit == {i \in 1..Len(h) :
                  e.node \in DOMAIN WorkflowNodes
                  /\ h[i].name = WorkflowNodes[e.node].name}
        i == IF hit = {} THEN 0 ELSE CHOOSE k \in hit : \A j \in hit : k <= j
    IN IF i = 0 THEN h
       ELSE IF e.isOk
       THEN [h EXCEPT ![i].status = "success",
                      ![i].result = [present |-> TRUE, input |-> "in",
                                     output |-> WorkflowNodes[e.node].output],
                      ![i].ended = TRUE]
       ELSE [h EXCEPT ![i].status = "fail",
                      ![i].error = ErrorField(e.error),
                      ![i].ended = TRUE]

\* shared.chat.ts:290-311
OnNodeEnd(h, e) ==
    LET i == FindEntry(h, e.nodeExecutionId)
    IN IF i = 0 THEN h
       ELSE IF e.isOk
       THEN [h EXCEPT ![i].status = "success",
                      ![i].result = [present |-> TRUE, input |-> "in",
                                     output |-> WorkflowNodes[e.node].output],
                      ![i].ended = TRUE]
       ELSE [h EXCEPT ![i].status = "fail",
                      ![i].error = ErrorField(e.error),
                      ![i].ended = TRUE]

\* the output written after a node event: the tool result with the live history
Snapshot(tr, h) == [type |-> "tool-output-available", toolCallId |-> tr.toolCallId,
                    status |-> tr.status, history |-> h]

\* history.map((h) => ({ ...h, result: undefined }))
StripResults(h) == [i \in 1..Len(h) |-> [h[i] EXCEPT !.result = NoResult]]

\* a collection without .filter(Boolean)
OutputNodeResultsUnfiltered(h) ==
    LET outs == SelectSeq(h, LAMBDA x : x.kind = "output")
    IN [i \in 1..Len(outs) |-> outs[i].result.output]

\* shared.chat.ts:337-340
OutputNodeResults(h) ==
    LET outs == SelectSeq(h, LAMBDA x : x.kind = "output" /\ x.result.present
                                          /\ x.result.output # "")
    IN [i \in 1..Len(outs) |-> outs[i].result.output]

\* result: undefined
NoResultField == [list |-> FALSE, items |-> <<>>]

\* shared.chat.ts:345-348: the only output itself when there is exactly one,
\* the list of outputs otherwise
ResultField(outputNodeResults) ==
    [list |-> Len(outputNodeResults) # 1, items |-> outputNodeResults]

\* an adapter that reports success whatever the run resolved with
FinalResultAlwaysSuccess(tr, h, isOk, error) ==
    [kind |-> "toolResult",
     toolCallId |-> tr.toolCallId,
     status |-> "success",
     error |-> IF error.present THEN ErrorField(error) ELSE NoError,
     history |-> StripResults(h),
     result |-> ResultField(OutputNodeResults(h))]

\* shared.chat.ts:328-350: the run resolved with { isOk, error? }
FinalResult(tr, h, isOk, error) ==
    [kind |-> "toolResult",
     toolCallId |-> tr.toolCallId,
     status |-> IF isOk THEN "success" ELSE "fail",
     error |-> IF error.present THEN ErrorField(error) ELSE NoError,
     history |-> StripResults(h),
     result |-> ResultField(OutputNodeResults(h))]

\* an adapter without the ifFail branch: the failure leaves execute as a throw
FailValueRethrown(err, h) ==
    [kind |-> "thrown",
     toolCallId |-> 0,
     status |-> "",
     error |-> NoError,
     history |-> h,
     result |-> NoResultField]

\* shared.chat.ts:351-359: the value of the ifFail branch
FailValue(err, h) ==
    [kind |-> "errorValue",
     toolCallId |-> 0,
     status |-> "",
     error |-> ErrorField(err),
     history |-> h,
     result |-> NoResultField]

\* VercelAIWorkflowToolStreamingResultTag.isMaybe: the value was made by the
\* tag's create (shared.chat.ts:246); the ifFail value is a plain object
isWorkflowToolResult(v) == v.kind = "toolResult"

\* a tool part as it is saved: its state and its output
ToolUIPartStates ==
    {"input-streaming", "input-available", "output-available", "output-error"}
\* v.state.startsWith("output")
StartsWithOutput(state) == state \in {"output-available", "output-error"}

\* shared.chat.ts:460-486, for a tool part
convertToSavePart(part) ==
    IF /\ isToolUIPart(part)
       /\ StartsWithOutput(part.state)
       /\ isWorkflowToolResult(part.output)
    THEN [part EXCEPT !.output.history = StripResults(part.output.history)]
    ELSE part

NotReturned ==
    [kind |-> "none", toolCallId |-> 0, status |-> "", error |-> NoError,
     history |-> <<>>, result |-> NoResultField]

IdleEngine == [phase |-> "none", exec |-> [x \in 1..MaxExec |-> "idle"]]

\* an AbortSignal: whether it has fired, and the listeners added at
\* shared.chat.ts:270
Signal(aborted, listeners) == [aborted |-> aborted, listeners |-> listeners]

\* an event handed to the subscriber of the engine
Event(eventType, nodeExecutionId, node, isOk) ==
    [eventType |-> eventType, nodeExecutionId |-> nodeExecutionId,
     node |-> node, isOk |-> isOk]

WfIdle ==
    /\ wfPc = "idle"
    /\ engine = IdleEngine
    /\ history = <<>>
    /\ toolResult = [toolCallId |-> 0, status |-> ""]
    /\ wfStream = <<>>
    /\ returned = NotReturned
    /\ events = <<>>
    /\ abortSignal = Signal(FALSE, 0)
    /\ exited = FALSE

\* shared.chat.ts:244-261: execute is invoked; the tool result is created with
\* status running and the lookup of the workflow structure is pending. The
\* signal handed to execute may have fired already.
WfInit ==
    /\ wfPc = "lookup"
    /\ engine = IdleEngine
    /\ history = <<>>
    /\ toolResult = [toolCallId |-> 7, status |-> "running"]
    /\ wfStream = <<>>
    /\ returned = NotReturned
    /\ events = <<>>
    /\ abortSignal \in {Signal(FALSE, 0), Signal(TRUE, 0)}
    /\ exited = FALSE

\* the client cancels the request: the signal fires once and runs the
\* listeners that were added before (shared.chat.ts:270)
Abort ==
    /\ ~abortSignal.aborted
    /\ abortSignal' = [abortSignal EXCEPT !.aborted = TRUE]
    /\ exited' = (exited \/ abortSignal.listeners > 0)
    /\ UNCHANGED <<wfPc, engine, history, toolResult, wfStream, returned, events>>
    /\ UNCHANGED <<turnVars, sanVars, convVars, uiVars, httpResponse>>

\* shared.chat.ts:262-327: the structure is found; the engine is created, the
\* abort listener is added, the subscriber is set and run is called
LookupFound ==
    /\ wfPc = "lookup"
    /\ wfPc' = "running"
    /\ engine' = [engine EXCEPT !.phase = "created"]
    /\ abortSignal' = [abortSignal EXCEPT !.listeners = @ + 1]
    /\ UNCHANGED <<history, toolResult, wfStream, returned, events, exited>>
    /\ UNCHANGED <<turnVars, sanVars, convVars, uiVars, httpResponse>>

\* an adapter that creates the engine before it tests that the workflow exists
LookupFailsAfterCreate ==
    /\ wfPc = "lookup"
    /\ \E err \in Errors :
          returned' = FailValue(err, history)
    /\ wfPc' = "returned"
    /\ engine' = [engine EXCEPT !.phase = "created"]
    /\ UNCHANGED <<history, toolResult, wfStream, events, abortSignal, exited>>
    /\ UNCHANGED <<turnVars, sanVars, convVars, uiVars, httpResponse>>

\* shared.chat.ts:263 and 351-359: no such workflow, or the store rejects
LookupFails ==
    /\ wfPc = "lookup"
    /\ \E err \in Errors :
          returned' = FailValue(err, history)
    /\ wfPc' = "returned"
    /\ UNCHANGED <<engine, history, toolResult, wfStream, events, abortSignal,
                   exited>>
    /\ UNCHANGED <<turnVars, sanVars, convVars, uiVars, httpResponse>>

\* shared.chat.ts:272-276
WorkflowStart ==
    /\ wfPc = "running"
    /\ engine.phase = "created"
    /\ engine' = [engine EXCEPT !.phase = "nodes"]
    /\ events' = Append(events, Event("WORKFLOW_START", 0, "", TRUE))
    /\ UNCHANGED <<wfPc, history, toolResult, wfStream, returned, abortSignal,
                   exited>>
    /\ UNCHANGED <<turnVars, sanVars, convVars, uiVars, httpResponse>>

\* shared.chat.ts:277-289 and 313-317; after exit() the engine starts no node.
\* Node execution ids are fresh: they are numbered in the order of the starts.
NodeStart(x, node) ==
    /\ wfPc = "running"
    /\ engine.phase = "nodes"
    /\ engine.exec[x] = "idle"
    /\ \A y \in 1..(x - 1) : engine.exec[y] # "idle"
    /\ ~exited
    /\ engine' = [engine EXCEPT !.exec[x] = node]
    /\ events' = Append(events, Event("NODE_START", x, node, TRUE))
    /\ IF node = "SKIP"
       THEN UNCHANGED <<history, wfStream>>
       ELSE LET e == [nodeExecutionId |-> x, node |-> node]
            IN /\ history' = OnNodeStart(history, e)
               /\ wfStream' =
                     IF node \in DOMAIN WorkflowNodes
                     THEN Append(wfStream, Snapshot(toolResult, history'))
                     ELSE wfStream
    /\ UNCHANGED <<wfPc, toolResult, returned, abortSignal, exited>>
    /\ UNCHANGED <<turnVars, sanVars, convVars, uiVars, httpResponse>>

\* a subscriber that writes the snapshot before it updates the history entry
NodeEndWriteBeforeUpdate(x, isOk, error) ==
    /\ wfPc = "running"
    /\ engine.phase = "nodes"
    /\ engine.exec[x] \in EventNodes
    /\ engine' = [engine EXCEPT !.exec[x] = "ended"]
    /\ events' = Append(events, Event("NODE_END", x, engine.exec[x], isOk))
    /\ IF engine.exec[x] = "SKIP"
       THEN UNCHANGED <<history, wfStream>>
       ELSE LET e == [nodeExecutionId |-> x, node |-> engine.exec[x],
                      isOk |-> isOk, error |-> error]
            IN /\ history' = OnNodeEnd(history, e)
               /\ wfStream' = Append(wfStream, Snapshot(toolResult, history))
    /\ UNCHANGED <<wfPc, toolResult, returned, abortSignal, exited>>
    /\ UNCHANGED <<turnVars, sanVars, convVars, uiVars, httpResponse>>

\* shared.chat.ts:277 and 290-317
NodeEnd(x, isOk, error) ==
    /\ wfPc = "running"
    /\ engine.phase = "nodes"
    /\ engine.exec[x] \in EventNodes
    /\ engine' = [engine EXCEPT !.exec[x] = "ended"]
    /\ events' = Append(events, Event("NODE_END", x, engine.exec[x], isOk))
    /\ IF engine.exec[x] = "SKIP"
       THEN UNCHANGED <<history, wfStream>>
       ELSE LET e == [nodeExecutionId |-> x, node |-> engine.exec[x],
                      isOk |-> isOk, error |-> error]
            IN /\ history' = OnNodeEnd(history, e)
               /\ wfStream' = Append(wfStream, Snapshot(toolResult, history'))
    /\ UNCHANGED <<wfPc, toolResult, returned, abortSignal, exited>>
    /\ UNCHANGED <<turnVars, sanVars, convVars, uiVars, httpResponse>>

\* shared.chat.ts:272-276
WorkflowEnd ==
    /\ wfPc = "running"
    /\ engine.phase = "nodes"
    /\ engine' = [engine EXCEPT !.phase = "ended"]
    /\ events' = Append(events, Event("WORKFLOW_END", 0, "", TRUE))
    /\ UNCHANGED <<wfPc, history, toolResult, wfStream, returned, abortSignal,
                   exited>>
    /\ UNCHANGED <<turnVars, sanVars, convVars, uiVars, httpResponse>>

\* shared.chat.ts:328-350: executor.run resolves
RunResolves(isOk, error) ==
    /\ wfPc = "running"
    /\ engine.phase = "ended"
    /\ isOk <=> ~error.present
    /\ returned' = FinalResult(toolResult, history, isOk, error)
    /\ toolResult' = [toolResult EXCEPT !.status = returned'.status]
    /\ wfPc' = "returned"
    /\ UNCHANGED <<engine, history, wfStream, events, abortSignal, exited>>
    /\ UNCHANGED <<turnVars, sanVars, convVars, uiVars, httpResponse>>

\* shared.chat.ts:351-359: executor.run (or a subscriber) throws or rejects
RunRejects(err) ==
    /\ wfPc = "running"
    /\ engine.phase \in {"created", "nodes", "ended"}
    /\ returned' = FailValue(err, history)
    /\ wfPc' = "returned"
    /\ UNCHANGED <<engine, history, toolResult, wfStream, events, abortSignal,
                   exited>>
    /\ UNCHANGED <<turnVars, sanVars, convVars, uiVars, httpResponse>>

WfNext ==
    \/ LookupFound
    \/ LookupFails
    \/ WorkflowStart
    \/ \E x \in 1..MaxExec, node \in EventNodes : NodeStart(x, node)
    \/ \E x \in 1..MaxExec : NodeEnd(x, TRUE, NoError)
    \/ \E x \in 1..MaxExec, error \in Errors : NodeEnd(x, FALSE, error)
    \/ WorkflowEnd
    \/ RunResolves(TRUE, NoError)
    \/ \E error \in Errors : RunResolves(FALSE, error)
    \/ \E err \in Errors : RunRejects(err)
    \/ Abort

----------------------------------------------------------------------------
\* History sanitization (shared.chat.ts sanitizeUIMessagesForConversion)

\* Bounds
MaxSanParts == 2

\* JavaScript values of part properties. A string is a sequence of tokens; a
\* property that is absent or deleted reads as undefined.
JsUndefined == [t |-> "undefined", s |-> <<>>]
JsNull == [t |-> "null", s |-> <<>>]
JsNumber(digit) == [t |-> "number", s |-> <<digit>>]
JsString(tokens) == [t |-> "string", s |-> tokens]

\* ToBoolean
Truthy(v) ==
    CASE v.t = "string" -> v.s # <<>>
      [] v.t = "number" -> v.s # <<"0">>
      [] OTHER -> FALSE

\* typeof v === "string"
IsString(v) == v.t = "string"

\* String.prototype.trim
Trim(s) == TrimRight(TrimLeft(s))

\* String.prototype.split(sep), as the sequence of the pieces
RECURSIVE SplitFrom(_, _, _)
SplitFrom(s, sep, piece) ==
    IF s = <<>> THEN <<piece>>
    ELSE IF Head(s) = sep THEN <<piece>> \o SplitFrom(Tail(s), sep, <<>>)
    ELSE SplitFrom(Tail(s), sep, Append(piece, Head(s)))

Split(s, sep) == SplitFrom(s, sep, <<>>)

\* String.prototype.toLowerCase on the tokens used in file names
toLowerCase(token) ==
    CASE token = "CSV" -> "csv"
      [] token = "PNG" -> "png"
      [] token = "Report" -> "report"
      [] OTHER -> token

LowerCased(s) == [i \in DOMAIN s |-> toLowerCase(s[i])]

\* shared.chat.ts:661-687
mediaTypeMap ==
    [jpg |-> <<"image", "/", "jpeg">>,
     jpeg |-> <<"image", "/", "jpeg">>,
     png |-> <<"image", "/", "png">>,
     gif |-> <<"image", "/", "gif">>,
     webp |-> <<"image", "/", "webp">>,
     pdf |-> <<"application", "/", "pdf">>,
     txt |-> <<"text", "/", "plain">>,
     csv |-> <<"text", "/", "csv">>,
     json |-> <<"application", "/", "json">>,
     md |-> <<"text", "/", "markdown">>,
     markdown |-> <<"text", "/", "markdown">>,
     js |-> <<"text", "/", "javascript">>,
     ts |-> <<"application", "/", "typescript">>,
     py |-> <<"text", "/", "x-python">>,
     html |-> <<"text", "/", "html">>,
     css |-> <<"text", "/", "css">>,
     docx |-> <<"application", "/",
                "vnd.openxmlformats-officedocument.wordprocessingml.document">>,
     xlsx |-> <<"application", "/",
                "vnd.openxmlformats-officedocument.spreadsheetml.sheet">>,
     xls |-> <<"application", "/", "vnd.ms-excel">>,
     zip |-> <<"application", "/", "zip">>]

OctetStream == <<"application", "/", "octet-stream">>

\* the lookup without lower-casing the extension
InferMediaTypeCaseSensitive(name) ==
    LET pieces == Split(name, ".")
        extension == pieces[Len(pieces)]
    IN IF Len(extension) = 1 /\ extension[1] \in DOMAIN mediaTypeMap
       THEN mediaTypeMap[extension[1]]
       ELSE OctetStream

\* shared.chat.ts:660 and 689-699: name.split(".").pop()?.toLowerCase(), then
\* the table or the default
InferMediaType(name) ==
    LET pieces == Split(name, ".")
        extension == LowerCased(pieces[Len(pieces)])
    IN IF Len(extension) = 1 /\ extension[1] \in DOMAIN mediaTypeMap
       THEN mediaTypeMap[extension[1]]
       ELSE OctetStream

\* shared.chat.ts:725: `file_${Date.now()}.${mediaType.split("/")[1] || "bin"}`
DefaultName(mediaType, now) ==
    LET pieces == Split(mediaType, "/")
        subtype == IF Len(pieces) >= 2 /\ pieces[2] # <<>> THEN pieces[2]
                   ELSE <<"bin">>
    IN <<"file_", now, ".">> \o subtype

\* Parts of UI messages
TextPart(text) == [type |-> <<"text">>, text |-> text]
ImagePart(image, mediaType) ==
    [type |-> <<"image">>, image |-> image, mediaType |-> mediaType]
FilePart(data, url, mediaType, mimeType, name) ==
    [type |-> <<"file">>, data |-> data, url |-> url, mediaType |-> mediaType,
     mimeType |-> mimeType, name |-> name]
TypedPart(type) == [type |-> type]

\* What the HTTP fetch of a file reference can give
Responses ==
    { [ok |-> o, body |-> b] : o \in BOOLEAN, b \in {<<>>, <<"content">>} }

\* btoa of the bytes of the body
Base64(body) == IF body = <<>> THEN <<>> ELSE <<"base64">> \o body

\* shared.chat.ts:488-520. A reference that is not a string cannot be fetched,
\* and mediaType.startsWith throws for a media type that is not a string; both
\* are caught and give null.
fetchFileContentForAI(fileUrl, mediaType, response) ==
    IF ~IsString(fileUrl) \/ ~response.ok THEN JsNull
    ELSE IF ~IsString(mediaType) THEN JsNull
    ELSE IF \/ (Len(mediaType.s) >= 2 /\ mediaType.s[1] = "text"
                  /\ mediaType.s[2] = "/")
            \/ mediaType.s = <<"application", "/", "json">>
         THEN JsString(response.body)
         ELSE JsString(Base64(response.body))

\* shared.chat.ts:541-549
KeepsText(part) ==
    /\ Truthy(part.text)
    /\ IsString(part.text)
    /\ Len(Trim(part.text.s)) # 0

\* shared.chat.ts:559-574
KeepsImage(part) == Truthy(part.image) /\ IsString(part.image)

\* shared.chat.ts:577-582: the media type is deleted when it is truthy and
\* not a string
RepairImage(part) ==
    IF Truthy(part.mediaType) /\ ~IsString(part.mediaType)
    THEN [part EXCEPT !.mediaType = JsUndefined]
    ELSE part

\* shared.chat.ts:594-606
KeepsFileBeforeFetch(part) ==
    /\ Truthy(part.data) \/ Truthy(part.url)
    /\ Truthy(part.data) => IsString(part.data)

\* shared.chat.ts:609
NeedsFetch(part) == ~Truthy(part.data) /\ Truthy(part.url)

\* shared.chat.ts:645-649
RenameMimeType(part) ==
    IF ~Truthy(part.mediaType) /\ Truthy(part.mimeType)
    THEN [part EXCEPT !.mediaType = part.mimeType, !.mimeType = JsUndefined]
    ELSE part

\* shared.chat.ts:652-706
WithMediaType(part) ==
    IF Truthy(part.mediaType) THEN part
    ELSE IF Truthy(part.name) /\ IsString(part.name)
         THEN [part EXCEPT !.mediaType = JsString(InferMediaType(part.name.s))]
         ELSE [part EXCEPT !.mediaType = JsString(OctetStream)]

\* shared.chat.ts:709-718
ValidMediaType(part) ==
    IF ~IsString(part.mediaType) \/ Len(Trim(part.mediaType.s)) = 0
    THEN [part EXCEPT !.mediaType = JsString(OctetStream)]
    ELSE part

\* shared.chat.ts:721-726
WithName(part, now) ==
    IF ~Truthy(part.name) \/ ~IsString(part.name)
    THEN [part EXCEPT !.name = JsString(DefaultName(part.mediaType.s, now))]
    ELSE part

\* shared.chat.ts:729-733: properties holding undefined or null are deleted
CleanUp(part) ==
    [k \in DOMAIN part |->
        IF k # "type" /\ part[k].t = "null" THEN JsUndefined ELSE part[k]]

\* shared.chat.ts:645-733 for a file part that holds its data
RepairFile(part, now) ==
    CleanUp(WithName(ValidMediaType(WithMediaType(RenameMimeType(part))), now))

\* Date.now()
Clock == {"1", "2"}

\* shared.chat.ts:748
IsPassedTool(part) ==
    part.type = <<"tool", "-", "call">> \/ part.type = <<"tool", "-", "result">>

\* A message; a message without a parts property has hasParts false
SanMessage(role, hasParts, parts) ==
    [role |-> role, hasParts |-> hasParts, parts |-> parts]

\* the loops of the call stand at a part
AtPart ==
    /\ sanPc = "loop"
    /\ sanPos.m <= Len(messages)
    /\ messages[sanPos.m].hasParts
    /\ sanPos.p <= Len(messages[sanPos.m].parts)

CurrentPart == messages[sanPos.m].parts[sanPos.p]

\* `continue` of the inner loop, the part being dropped
SkipPart ==
    /\ sanPos' = [sanPos EXCEPT !.p = @ + 1]
    /\ UNCHANGED <<messages, validParts>>

\* validParts.push(part); the array holds the part itself, repaired in place
PushPart(part) ==
    /\ messages' = [messages EXCEPT ![sanPos.m].parts[sanPos.p] = part]
    /\ validParts' = Append(validParts, part)
    /\ sanPos' = [sanPos EXCEPT !.p = @ + 1]

\* shared.chat.ts:529-532
KeepMessage ==
    /\ sanPc = "loop"
    /\ sanPos.m <= Len(messages)
    /\ ~messages[sanPos.m].hasParts
    /\ processedMessages' = Append(processedMessages, messages[sanPos.m])
    /\ sanPos' = [m |-> sanPos.m + 1, p |-> 1]
    /\ UNCHANGED <<sanPc, messages, given, validParts>>
    /\ UNCHANGED <<turnVars, wfVars, convVars, uiVars, httpResponse>>

\* shared.chat.ts:539-552
SanitizeText ==
    /\ AtPart
    /\ CurrentPart.type = <<"text">>
    /\ IF KeepsText(CurrentPart) THEN PushPart(CurrentPart) ELSE SkipPart
    /\ UNCHANGED <<sanPc, given, processedMessages>>
    /\ UNCHANGED <<turnVars, wfVars, convVars, uiVars, httpResponse>>

\* shared.chat.ts:555-587
SanitizeImage ==
    /\ AtPart
    /\ CurrentPart.type = <<"image">>
    /\ IF KeepsImage(CurrentPart) THEN PushPart(RepairImage(CurrentPart))
       ELSE SkipPart
    /\ UNCHANGED <<sanPc, given, processedMessages>>
    /\ UNCHANGED <<turnVars, wfVars, convVars, uiVars, httpResponse>>

\* shared.chat.ts:590-745
SanitizeFile(response, now) ==
    /\ AtPart
    /\ CurrentPart.type = <<"file">>
    /\ IF ~KeepsFileBeforeFetch(CurrentPart) THEN SkipPart
       ELSE IF NeedsFetch(CurrentPart)
            THEN LET fetchedContent ==
                         fetchFileContentForAI(CurrentPart.url,
                                               CurrentPart.mediaType, response)
                 IN IF Truthy(fetchedContent)
                    THEN PushPart(RepairFile(
                             [CurrentPart EXCEPT !.data = fetchedContent], now))
                    ELSE SkipPart
            ELSE PushPart(RepairFile(CurrentPart, now))
    /\ UNCHANGED <<sanPc, given, processedMessages>>
    /\ UNCHANGED <<turnVars, wfVars, convVars, uiVars, httpResponse>>

\* shared.chat.ts:747-751
PassTool ==
    /\ AtPart
    /\ IsPassedTool(CurrentPart)
    /\ PushPart(CurrentPart)
    /\ UNCHANGED <<sanPc, given, processedMessages>>
    /\ UNCHANGED <<turnVars, wfVars, convVars, uiVars, httpResponse>>

\* shared.chat.ts:753-755
DropUnknown ==
    /\ AtPart
    /\ CurrentPart.type \notin {<<"text">>, <<"image">>, <<"file">>}
    /\ ~IsPassedTool(CurrentPart)
    /\ SkipPart
    /\ UNCHANGED <<sanPc, given, processedMessages>>
    /\ UNCHANGED <<turnVars, wfVars, convVars, uiVars, httpResponse>>

\* shared.chat.ts:758-762
PushMessage ==
    /\ sanPc = "loop"
    /\ sanPos.m <= Len(messages)
    /\ messages[sanPos.m].hasParts
    /\ sanPos.p > Len(messages[sanPos.m].parts)
    /\ processedMessages' =
          Append(processedMessages,
                 [messages[sanPos.m] EXCEPT !.parts = validParts])
    /\ validParts' = <<>>
    /\ sanPos' = [m |-> sanPos.m + 1, p |-> 1]
    /\ UNCHANGED <<sanPc, messages, given>>
    /\ UNCHANGED <<turnVars, wfVars, convVars, uiVars, httpResponse>>

\* shared.chat.ts:765
SanReturn ==
    /\ sanPc = "loop"
    /\ sanPos.m > Len(messages)
    /\ sanPc' = "done"
    /\ UNCHANGED <<messages, given, sanPos, validParts, processedMessages>>
    /\ UNCHANGED <<turnVars, wfVars, convVars, uiVars, httpResponse>>

SanNext ==
    \/ KeepMessage
    \/ SanitizeText
    \/ SanitizeImage
    \/ \E response \in Responses, now \in Clock : SanitizeFile(response, now)
    \/ PassTool
    \/ DropUnknown
    \/ PushMessage
    \/ SanReturn

\* no call of the sanitizer is under way
SanIdle ==
    /\ sanPc = "idle"
    /\ messages = <<>>
    /\ given = <<>>
    /\ sanPos = [m |-> 1, p |-> 1]
    /\ validParts = <<>>
    /\ processedMessages = <<>>

----------------------------------------------------------------------------
\* Conversion to the model format (route.ts:88-100, 226-510)

\* a persisted message of the thread
Stored(id, role, hasParts, parts) ==
    [id |-> id, role |-> role, hasParts |-> hasParts, parts |-> parts]

\* chatRepository.upsertMessage
upsertMessage(st, msg) ==
    IF \E i \in DOMAIN st : st[i].id = msg.id
    THEN [i \in DOMAIN st |-> IF st[i].id = msg.id THEN msg ELSE st[i]]
    ELSE Append(st, msg)

\* route.ts:88-100: the thread's messages, the incoming message taking the
\* place of a last message with its id
ThreadMessages ==
    LET kept == IF store # <<>> /\ store[Len(store)].id = message.id
                THEN SubSeq(store, 1, Len(store) - 1)
                ELSE store
    IN [i \in DOMAIN kept |->
           SanMessage(kept[i].role, kept[i].hasParts, kept[i].parts)]
          \o <<SanMessage(message.role, TRUE, message.parts)>>

\* the parts of the incoming message, which is the last element of the array
\* the sanitizer repairs in place
IncomingParts == messages[Len(messages)].parts

\* route.ts:411
Placeholder == TextPart(JsString(<<"Hello">>))

\* route.ts:406-407
TextPartsOf(msg) ==
    IF msg.hasParts
    THEN SelectSeq(msg.parts, LAMBDA part : part.type = <<"text">>)
    ELSE <<>>

\* the fallback without the placeholder for a message left without text
fallbackMessagesWithoutPlaceholder(sanitizedMessages) ==
    LET mapped == [m \in DOMAIN sanitizedMessages |->
                      SanMessage(sanitizedMessages[m].role, TRUE,
                                 TextPartsOf(sanitizedMessages[m]))]
    IN SelectSeq(mapped, LAMBDA msg : Len(msg.parts) > 0)

\* route.ts:404-419
fallbackMessages(sanitizedMessages) ==
    LET mapped == [m \in DOMAIN sanitizedMessages |->
                      LET textParts == TextPartsOf(sanitizedMessages[m])
                      IN SanMessage(sanitizedMessages[m].role, TRUE,
                                    IF Len(textParts) = 0
                                    THEN Append(textParts, Placeholder)
                                    ELSE textParts)]
    IN SelectSeq(mapped, LAMBDA msg : Len(msg.parts) > 0)

\* route.ts:432-436
AttachmentsRemoved ==
    [type |-> "error",
     errorText |-> "File attachments were removed due to processing issues. Please try uploading the files again or contact support."]

\* route.ts:457-459
AllAttemptsFailed ==
    [name |-> "Error", message |-> "All message conversion attempts failed."]

\* shared.chat.ts:160-167
handleError(error) == error.message

\* route.ts:518: the stream reports what onError returns
Surfaced(error) == [type |-> "error", errorText |-> handleError(error)]

NoModelMessages == [set |-> FALSE, of |-> <<>>]

\* the message the model answers with
ResponseParts == <<TextPart(JsString(<<"reply">>))>>

\* parts.map(convertToSavePart)
SaveParts(parts) == [i \in DOMAIN parts |-> convertToSavePart(parts[i])]

\* route.ts:488-510: what onFinish leaves in the store. The response continues
\* the incoming message when that is an assistant message, and is a message
\* of its own otherwise.
onFinish ==
    IF message.role = "assistant"
    THEN upsertMessage(store,
                       Stored(message.id, "assistant", TRUE,
                              SaveParts(IncomingParts \o ResponseParts)))
    ELSE upsertMessage(
            upsertMessage(store,
                          Stored(message.id, message.role, TRUE,
                                 SaveParts(IncomingParts))),
            Stored("r1", "assistant", TRUE, SaveParts(ResponseParts)))

ConvIdle ==
    /\ handed = <<>>
    /\ modelMessages = NoModelMessages
    /\ invocations = <<>>
    /\ store = <<>>
    /\ wouldPersist = <<>>

\* route.ts:226-228: the sanitizer is called on the history
CallSanitizer ==
    /\ pc = "streamText"
    /\ sanPc = "idle"
    /\ sanPc' = "loop"
    /\ messages' = ThreadMessages
    /\ given' = ThreadMessages
    /\ sanPos' = [m |-> 1, p |-> 1]
    /\ validParts' = <<>>
    /\ processedMessages' = <<>>
    /\ UNCHANGED <<turnVars, wfVars, convVars, uiVars, httpResponse>>

\* route.ts:255-367: the first conversion, of the sanitized history
ConvertFirst(ok) ==
    /\ pc = "streamText"
    /\ sanPc = "done"
    /\ handed = <<>>
    /\ handed' = <<processedMessages>>
    /\ modelMessages' = IF ok THEN [set |-> TRUE, of |-> processedMessages]
                        ELSE modelMessages
    /\ wouldPersist' = onFinish
    /\ UNCHANGED <<turnVars, wfVars, sanVars, invocations, store, uiVars, httpResponse>>

\* the fallback writing the text parts back into the messages of the history
FallbackInPlace(ok) ==
    /\ pc = "streamText"
    /\ Len(handed) = 1
    /\ ~modelMessages.set
    /\ handed' = Append(handed, fallbackMessages(processedMessages))
    /\ messages' = [m \in DOMAIN messages |->
                       [messages[m] EXCEPT
                           !.parts = fallbackMessages(<<messages[m]>>)[1].parts]]
    /\ IF ok
       THEN /\ modelMessages' =
                  [set |-> TRUE, of |-> fallbackMessages(processedMessages)]
            /\ stream' = stream (+) SetToBag({AttachmentsRemoved})
            /\ UNCHANGED <<pc, threw>>
       ELSE /\ pc' = "failed"
            /\ threw' = threw \cup {"conversion"}
            /\ stream' = stream (+) SetToBag({Surfaced(AllAttemptsFailed)})
            /\ UNCHANGED modelMessages
    /\ UNCHANGED <<req, message, MCP_TOOLS, WORKFLOW_TOOLS, APP_DEFAULT_TOOLS,
                   task, execLog, vercelAITooles, modelCalls, thread, wfVars,
                   sanPc, given, sanPos, validParts, processedMessages,
                   invocations, store, wouldPersist, uiVars, httpResponse>>

\* the fallback going on without a notice on the stream
FallbackWithoutNotice(ok) ==
    /\ pc = "streamText"
    /\ Len(handed) = 1
    /\ ~modelMessages.set
    /\ handed' = Append(handed, fallbackMessages(processedMessages))
    /\ IF ok
       THEN /\ modelMessages' =
                  [set |-> TRUE, of |-> fallbackMessages(processedMessages)]
            /\ UNCHANGED <<pc, threw, stream>>
       ELSE /\ pc' = "failed"
            /\ threw' = threw \cup {"conversion"}
            /\ stream' = stream (+) SetToBag({Surfaced(AllAttemptsFailed)})
            /\ UNCHANGED modelMessages
    /\ UNCHANGED <<req, message, MCP_TOOLS, WORKFLOW_TOOLS, APP_DEFAULT_TOOLS,
                   task, execLog, vercelAITooles, modelCalls, thread, wfVars,
                   sanVars, invocations, store, wouldPersist, uiVars,
                   httpResponse>>

\* route.ts:367-461: the first conversion has thrown; the text-only history is
\* built and converted. When that throws too the execute callback throws, and
\* the stream reports the error.
Fallback(ok) ==
    /\ pc = "streamText"
    /\ Len(handed) = 1
    /\ ~modelMessages.set
    /\ handed' = Append(handed, fallbackMessages(processedMessages))
    /\ IF ok
       THEN /\ modelMessages' =
                  [set |-> TRUE, of |-> fallbackMessages(processedMessages)]
            /\ stream' = stream (+) SetToBag({AttachmentsRemoved})
            /\ UNCHANGED <<pc, threw>>
       ELSE /\ pc' = "failed"
            /\ threw' = threw \cup {"conversion"}
            /\ stream' = stream (+) SetToBag({Surfaced(AllAttemptsFailed)})
            /\ UNCHANGED modelMessages
    /\ UNCHANGED <<req, message, MCP_TOOLS, WORKFLOW_TOOLS, APP_DEFAULT_TOOLS,
                   task, execLog, vercelAITooles, modelCalls, thread, wfVars,
                   sanVars, invocations, store, wouldPersist, uiVars,
                   httpResponse>>

\* route.ts:463-484: streamText is called with the converted messages
InvokeModel ==
    /\ pc = "streamText"
    /\ modelMessages.set
    /\ pc' = "model"
    /\ invocations' = Append(invocations, modelMessages.of)
    /\ UNCHANGED <<req, message, threw, MCP_TOOLS, WORKFLOW_TOOLS,
                   APP_DEFAULT_TOOLS, task, execLog, stream, vercelAITooles,
                   modelCalls, thread, wfVars, sanVars, handed, modelMessages,
                   store, wouldPersist, uiVars, httpResponse>>

\* route.ts:488-510
Persist ==
    /\ pc = "model"
    /\ pc' = "done"
    /\ store' = onFinish
    /\ UNCHANGED <<req, message, threw, MCP_TOOLS, WORKFLOW_TOOLS,
                   APP_DEFAULT_TOOLS, task, execLog, stream, vercelAITooles,
                   modelCalls, thread, wfVars, sanVars, handed, modelMessages,
                   invocations, wouldPersist, uiVars, httpResponse>>

----------------------------------------------------------------------------
\* The mention state of the prompt input (prompt-input.tsx:94-206, 384-402)

\* lib equal: deep equality
equal(a, b) == a = b

\* prompt-input.tsx:120
deleteMention(mentions, mention) ==
    SelectSeq(mentions, LAMBDA m : ~equal(m, mention))

\* the updater appending an agent mention like any other
addMentionKeepingAgents(prev, mentions, mention) ==
    IF \E i \in DOMAIN mentions : equal(mentions[i], mention)
    THEN prev
    ELSE Append(mentions, mention)

\* prompt-input.tsx:135-149: the updater, given the store's list (prev) and the
\* list the callback closed over
addMention(prev, mentions, mention) ==
    IF \E i \in DOMAIN mentions : equal(mentions[i], mention)
    THEN prev
    ELSE IF mention.type = "agent"
         THEN Append(SelectSeq(mentions, LAMBDA m : m.type # "agent"), mention)
         ELSE Append(mentions, mention)

RECURSIVE LastAgentOnly(_)
\* prompt-input.tsx:191-202: of the agent mentions only the last one stays
LastAgentOnly(list) ==
    IF list = <<>> THEN <<>>
    ELSE IF /\ Head(list).type = "agent"
            /\ \E i \in DOMAIN Tail(list) : Tail(list)[i].type = "agent"
         THEN LastAgentOnly(Tail(list))
         ELSE <<Head(list)>> \o LastAgentOnly(Tail(list))

RECURSIVE ForEachAddMention(_, _, _)
\* prompt-input.tsx:203: forEach(addMention), every call with the same closure
ForEachAddMention(prev, mentions, list) ==
    IF list = <<>> THEN prev
    ELSE ForEachAddMention(addMention(prev, mentions, Head(list)), mentions,
                           Tail(list))

UiIdle ==
    /\ threadMentions = <<>>
    /\ renderedMentions = <<>>

NoResponse == httpResponse = [status |-> 0]

\* prompt-input.tsx:94-97: the component renders with the store's list
Render ==
    /\ renderedMentions # threadMentions
    /\ renderedMentions' = threadMentions
    /\ UNCHANGED <<threadMentions, turnVars, wfVars, sanVars, convVars, httpResponse>>

\* prompt-input.tsx:116-130, called for a mention that is shown (463)
DeleteMention(mention) ==
    /\ \E i \in DOMAIN renderedMentions : renderedMentions[i] = mention
    /\ threadMentions' = deleteMention(renderedMentions, mention)
    /\ UNCHANGED <<renderedMentions, turnVars, wfVars, sanVars, convVars,
                   httpResponse>>

\* prompt-input.tsx:132-152
AddMention(mention) ==
    /\ threadMentions' = addMention(threadMentions, renderedMentions, mention)
    /\ UNCHANGED <<renderedMentions, turnVars, wfVars, sanVars, convVars,
                   httpResponse>>

\* prompt-input.tsx:167-187
OnSelectAgent(agent) ==
    /\ threadMentions' = <<agent>>
    /\ UNCHANGED <<renderedMentions, turnVars, wfVars, sanVars, convVars,
                   httpResponse>>

\* prompt-input.tsx:189-206
OnChangeMention(list) ==
    /\ threadMentions' =
          ForEachAddMention(threadMentions, renderedMentions, LastAgentOnly(list))
    /\ UNCHANGED <<renderedMentions, turnVars, wfVars, sanVars, convVars,
                   httpResponse>>

\* prompt-input.tsx:384-402: Escape
HandleKeyDown ==
    /\ Len(renderedMentions) > 0
    /\ threadMentions' = <<>>
    /\ UNCHANGED <<renderedMentions, turnVars, wfVars, sanVars, convVars,
                   httpResponse>>

----------------------------------------------------------------------------
\* Specifications

Init == TurnInit /\ WfIdle /\ SanIdle /\ ConvIdle /\ UiIdle /\ NoResponse
Next == TurnNext
Spec == Init /\ [][Next]_vars

\* manualToolExecuteByLastMessage applied to any tool part and registry
DirectParts ==
    { <<ToolPart(n, 1, st, 10, o)>> :
        n \in PendingNames, st \in {"output-available", "input-available"},
        o \in {ManualToolConfirm(TRUE), ManualToolConfirm(FALSE), NoOutput,
               Out("result", FALSE, NX, "mcp", 10, "")} }

InitGate ==
    /\ pc = "call"
    /\ req = CHOOSE r \in Requests : TRUE
    /\ message \in { [id |-> "a1", role |-> "assistant", toolChoice |-> "manual",
                      parts |-> ps] : ps \in DirectParts }
    /\ threw = {}
    /\ MCP_TOOLS \in {EmptyReg, McpRawTools}
    /\ WORKFLOW_TOOLS \in {EmptyReg, loadWorkFlowTools(<<WorkflowMention("w1")>>, FALSE)}
    /\ APP_DEFAULT_TOOLS \in {EmptyReg, APP_DEFAULT_TOOL_KIT.webSearch}
    /\ task = <<>>
    /\ execLog = <<>>
    /\ stream = EmptyBag
    /\ vercelAITooles = EmptyReg
    /\ modelCalls = {}
    /\ thread = {}
    /\ WfIdle
    /\ SanIdle
    /\ ConvIdle
    /\ UiIdle
    /\ NoResponse

\* the gate is called for the part, whatever its state and output
CallGate ==
    /\ pc = "call"
    /\ StartResolutions(<<1>>)
    /\ pc' = "gate"
    /\ UNCHANGED <<req, message, threw, MCP_TOOLS, WORKFLOW_TOOLS,
                   APP_DEFAULT_TOOLS, stream, vercelAITooles, modelCalls, thread,
                   wfVars, sanVars, convVars, uiVars, httpResponse>>

NextGate == CallGate \/ FinishResolution(1)
SpecGate == InitGate /\ [][NextGate]_vars

InitWf ==
    TurnInit /\ WfInit /\ SanIdle /\ ConvIdle /\ UiIdle /\ NoResponse
NextWf == WfNext
SpecWf == InitWf /\ [][NextWf]_vars

\* A manual turn whose message carries a confirmed call of the workflow tool
\* (part 1) next to another pending call (part 2), while the stored workflow
\* has been deleted since the tool was loaded: the gate invokes the adapter's
\* execute for part 1, the lookup does not find the workflow, and the
\* resolution of part 1 settles with what execute resolved to. The client may
\* cancel the request at any time.
CallRequest ==
    RequestBody("manual", TRUE,
                <<McpToolMention("s1", <<"x">>), WorkflowMention("w1")>>,
                [defined |-> FALSE, servers |-> EmptyReg],
                [defined |-> FALSE, kits |-> {}])

InitCall ==
    /\ pc = "extract"
    /\ req = CallRequest
    /\ message \in
          { [id |-> "a1", role |-> "assistant", toolChoice |-> "manual",
             parts |-> <<ToolPart(NW, 1, "output-available", 10,
                                  ManualToolConfirm(TRUE)),
                         ToolPart(n, 2, "output-available", 20,
                                  ManualToolConfirm(c))>>] :
              n \in {NX, NM}, c \in BOOLEAN }
    /\ threw = {}
    /\ MCP_TOOLS = loadMcpTools(req.mentions, req.allowedMcpServers, FALSE)
    /\ WORKFLOW_TOOLS = loadWorkFlowTools(req.mentions, FALSE)
    /\ APP_DEFAULT_TOOLS =
          loadAppDefaultTools(req.mentions, req.allowedAppDefaultToolkit, FALSE)
    /\ task = <<>>
    /\ execLog = <<>>
    /\ stream = EmptyBag
    /\ vercelAITooles = EmptyReg
    /\ modelCalls = {}
    /\ thread = {}
    /\ WfIdle
    /\ SanIdle
    /\ ConvIdle
    /\ UiIdle
    /\ NoResponse

\* route.ts:158-166 with shared.chat.ts:134 and 244-261: the gate starts the
\* resolutions; the one of part 1 invokes execute of the workflow tool
StartGateCall ==
    /\ pc = "extract"
    /\ StartResolutions(extractInProgressToolPart(message))
    /\ pc' = "gate"
    /\ wfPc' = "lookup"
    /\ toolResult' = [toolCallId |-> message.parts[1].toolCallId,
                      status |-> "running"]
    /\ UNCHANGED <<req, message, threw, MCP_TOOLS, WORKFLOW_TOOLS,
                   APP_DEFAULT_TOOLS, stream, vercelAITooles, modelCalls, thread,
                   engine, history, wfStream, returned, events, abortSignal,
                   exited, sanVars, convVars, uiVars, httpResponse>>

\* route.ts:162-173 for part 1: execute has resolved, and the resolution
\* settles with its value
ResolveWorkflowCall ==
    /\ wfPc = "returned"
    /\ FinishResolution(1)
    /\ task'[1].outcome =
          (IF returned.kind = "toolResult" /\ returned.status = "success"
           THEN "ok" ELSE "errorValue")

NextCall ==
    \/ StartGateCall
    \/ LookupFails
    \/ ResolveWorkflowCall
    \/ FinishResolution(2)
    \/ Compose
    \/ StreamText
    \/ Abort
SpecCall == InitCall /\ [][NextCall]_vars

\* sanitizeUIMessagesForConversion applied to a history. The parts are drawn
\* from well-formed and malformed parts of every type; histories of several
\* parts are built from one representative of each way a part is treated.
TextValues ==
    {JsUndefined, JsNull, JsNumber("5"), JsString(<<>>), JsString(<<" ">>),
     JsString(<<"hi">>), JsString(<<" ", "hi">>)}
PngType == JsString(<<"image", "/", "png">>)
PlainType == JsString(<<"text", "/", "plain">>)
HtmlType == JsString(<<"text", "/", "html">>)
FileNames ==
    {JsUndefined, JsNull, JsNumber("5"), JsString(<<>>),
     JsString(<<"Report", ".", "CSV">>), JsString(<<"notes">>),
     JsString(<<"csv">>), JsString(<<"a", ".", "weird">>)}

TextParts == { TextPart(t) : t \in TextValues }
ImageParts ==
    { ImagePart(i, mt) :
        i \in {JsUndefined, JsNumber("5"), JsString(<<"img">>)},
        mt \in {JsUndefined, JsNull, JsNumber("0"), JsNumber("5"), PngType} }
FilePartsWithData ==
    { FilePart(JsString(<<"d">>), u, mt, mm, n) :
        u \in {JsUndefined, JsString(<<"u">>)},
        mt \in {JsUndefined, JsNull, JsNumber("5"), JsString(<<" ">>), PlainType},
        mm \in {JsUndefined, JsNumber("5"), HtmlType},
        n \in FileNames }
FilePartsWithoutData ==
    { FilePart(d, u, mt, mm, JsString(<<"report", ".", "csv">>)) :
        d \in {JsUndefined, JsNumber("5"), JsString(<<>>)},
        u \in {JsUndefined, JsNumber("5"), JsString(<<"u">>)},
        mt \in {JsUndefined, PlainType, PngType},
        mm \in {JsUndefined, HtmlType} }
ToolParts ==
    { ToolPart(NX, 1, st, 10, o) :
        st \in {"input-streaming", "input-available", "output-available",
                "output-error"},
        o \in {NoOutput, ManualToolConfirm(TRUE),
               Out("result", FALSE, NX, "mcp", 10, "")} }
OtherParts ==
    { TypedPart(t) :
        t \in {<<"tool", "-", "call">>, <<"tool", "-", "result">>,
               <<"reasoning">>, <<"step", "-", "start">>} }

SanParts ==
    TextParts \cup ImageParts \cup FilePartsWithData
       \cup FilePartsWithoutData \cup ToolParts \cup OtherParts

MixParts ==
    {TextPart(JsString(<<"hi">>)), TextPart(JsString(<<" ">>)),
     ImagePart(JsString(<<"img">>), JsNumber("5")),
     FilePart(JsString(<<"d">>), JsUndefined, JsUndefined, HtmlType, JsUndefined),
     FilePart(JsUndefined, JsString(<<"u">>), PlainType, JsUndefined,
              JsString(<<"report", ".", "csv">>)),
     ToolPart(NX, 1, "output-available", 10,
              Out("result", FALSE, NX, "mcp", 10, "")),
     TypedPart(<<"tool", "-", "result">>),
     TypedPart(<<"reasoning">>)}

MixSeqs(n) == UNION { [1..k -> MixParts] : k \in 0..n }

SanHistories ==
    { <<SanMessage("user", TRUE, <<part>>)>> : part \in SanParts }
       \cup { <<SanMessage("assistant", TRUE, parts)>> :
                parts \in MixSeqs(MaxSanParts) }
       \cup { <<SanMessage("user", FALSE, <<>>),
                SanMessage("assistant", TRUE, parts)>> :
                parts \in MixSeqs(MaxSanParts - 1) }
       \cup { <<SanMessage("user", TRUE, <<part>>),
                SanMessage("assistant", TRUE, parts)>> :
                part \in MixParts, parts \in MixSeqs(MaxSanParts - 1) }

InitSan ==
    /\ TurnInit
    /\ WfIdle
    /\ sanPc = "loop"
    /\ messages \in SanHistories
    /\ given = messages
    /\ sanPos = [m |-> 1, p |-> 1]
    /\ validParts = <<>>
    /\ processedMessages = <<>>
    /\ ConvIdle
    /\ UiIdle
    /\ NoResponse

SpecSan == InitSan /\ [][SanNext]_vars

\* The three loads of a turn (route.ts:129-157) for requests with every list
\* of mentions of every kind and every kind of allow-list
MaxMentions == 2

AgentMention == Mention("agent", "", <<>>, "")

LoadMentions ==
    {McpServerMention("s1"), McpServerMention("s2"),
     McpToolMention("s1", <<"x">>), McpToolMention("s1", <<"m">>),
     McpToolMention("s2", <<"m">>), McpToolMention("s2", <<"x">>),
     WorkflowMention("w1"), DefaultToolMention(NX), AgentMention}

LoadMentionLists == UNION { [1..n -> LoadMentions] : n \in 0..MaxMentions }

LoadAllowedMcpServers ==
    { [defined |-> FALSE, servers |-> EmptyReg],
      [defined |-> TRUE, servers |-> EmptyReg],
      [defined |-> TRUE, servers |-> [s1 |-> {<<"x">>}]],
      [defined |-> TRUE, servers |-> [s1 |-> {<<"m">>}, s2 |-> {<<"m">>}]] }

LoadAllowedAppDefaultToolkit ==
    { [defined |-> FALSE, kits |-> {}],
      [defined |-> TRUE, kits |-> {}],
      [defined |-> TRUE, kits |-> {"webSearch"}] }

LoadRequests ==
    { RequestBody(tc, TRUE, ms, am, aa) :
        tc \in {"auto", "none"}, ms \in LoadMentionLists,
        am \in LoadAllowedMcpServers, aa \in LoadAllowedAppDefaultToolkit }

InitLoad ==
    /\ pc = "loadMcp"
    /\ req \in LoadRequests
    /\ message = CHOOSE m \in Messages : m.role = "user"
    /\ threw = {}
    /\ MCP_TOOLS = EmptyReg
    /\ WORKFLOW_TOOLS = EmptyReg
    /\ APP_DEFAULT_TOOLS = EmptyReg
    /\ task = <<>>
    /\ execLog = <<>>
    /\ stream = EmptyBag
    /\ vercelAITooles = EmptyReg
    /\ modelCalls = {}
    /\ thread = {}
    /\ WfIdle
    /\ SanIdle
    /\ ConvIdle
    /\ UiIdle
    /\ NoResponse

NextLoad == LoadMcp \/ LoadWorkflow \/ LoadAppDefault
SpecLoad == InitLoad /\ [][NextLoad]_vars

\* A turn from the gate to onFinish (route.ts:158-510) in a manual chat that
\* mentions the MCP tool x: the incoming message is an assistant message with
\* a call that waits for its confirmation, alone or after a text part, a call
\* in another state or a call that has its result, or a user message with
\* parts of every kind; the thread holds none, one or two earlier messages.
ConvRequest ==
    RequestBody("manual", TRUE, <<McpToolMention("s1", <<"x">>)>>,
                [defined |-> FALSE, servers |-> EmptyReg],
                [defined |-> FALSE, kits |-> {}])

ConvParts ==
    {TextPart(JsString(<<"hi">>)), TextPart(JsString(<<"yo">>)),
     TextPart(JsString(<<" ">>)),
     ImagePart(JsString(<<"img">>), JsNumber("5")),
     FilePart(JsUndefined, JsString(<<"u">>), PlainType, JsUndefined,
              JsString(<<"report", ".", "csv">>)),
     ToolPart(<<"result">>, 3, "output-available", 10,
              Out("result", FALSE, <<"result">>, "mcp", 10, ""))}

ConvMessages ==
    { [id |-> "u1", role |-> "user", toolChoice |-> "manual", parts |-> ps] :
        ps \in UNION { [1..k -> ConvParts] : k \in 0..MaxSanParts } }
       \cup
    { [id |-> "a1", role |-> "assistant", toolChoice |-> tc,
       parts |-> ps \o <<ToolPart(NX, 2, "output-available", 10,
                                  ManualToolConfirm(c))>>] :
        tc \in {"manual", "auto"},
        ps \in {<<>>, <<TextPart(JsString(<<"hi">>))>>,
                <<ToolPart(NX, 1, "input-available", 10,
                           ManualToolConfirm(TRUE))>>,
                <<ToolPart(NX, 1, "output-available", 10,
                           Out("result", FALSE, NX, "mcp", 10, ""))>>},
        c \in BOOLEAN }

ConvStores ==
    { <<>>,
      <<Stored("u0", "user", FALSE, <<>>)>>,
      <<Stored("u0", "user", TRUE, <<ImagePart(JsUndefined, PngType)>>)>>,
      <<Stored("u0", "user", TRUE, <<TextPart(JsString(<<"hi">>))>>),
        Stored("a1", "assistant", TRUE,
               <<TextPart(JsString(<<"hi">>)),
                 ToolPart(NX, 2, "input-available", 10, NoOutput)>>)>> }

InitConv ==
    /\ pc = "extract"
    /\ req = ConvRequest
    /\ message \in ConvMessages
    /\ threw = {}
    /\ MCP_TOOLS = loadMcpTools(req.mentions, req.allowedMcpServers, FALSE)
    /\ WORKFLOW_TOOLS = loadWorkFlowTools(req.mentions, FALSE)
    /\ APP_DEFAULT_TOOLS =
          loadAppDefaultTools(req.mentions, req.allowedAppDefaultToolkit, FALSE)
    /\ task = <<>>
    /\ execLog = <<>>
    /\ stream = EmptyBag
    /\ vercelAITooles = EmptyReg
    /\ modelCalls = {}
    /\ thread = {}
    /\ WfIdle
    /\ SanIdle
    /\ handed = <<>>
    /\ modelMessages = NoModelMessages
    /\ invocations = <<>>
    /\ store \in ConvStores
    /\ wouldPersist = <<>>
    /\ UiIdle
    /\ NoResponse

NextConv ==
    \/ StartGate
    \/ \E i \in 1..(MaxSanParts + 1) : FinishResolution(i)
    \/ Compose
    \/ CallSanitizer
    \/ SanNext
    \/ \E ok \in BOOLEAN : ConvertFirst(ok)
    \/ \E ok \in BOOLEAN : Fallback(ok)
    \/ InvokeModel
    \/ Persist

SpecConv == InitConv /\ [][NextConv]_vars

\* The mention state of one thread under the operations of the prompt input,
\* with two agents, a tool and a workflow to mention; a list given to
\* onChangeMention holds up to MaxChange mentions
MaxChange == 2

AgentA == Mention("agent", "", NA, "")
AgentB == Mention("agent", "", NX, "")
UiMentions ==
    {AgentA, AgentB, McpToolMention("s1", <<"x">>), WorkflowMention("w1")}
ChangeLists == UNION { [1..n -> UiMentions] : n \in 0..MaxChange }

InitMention ==
    TurnInit /\ WfIdle /\ SanIdle /\ ConvIdle /\ UiIdle /\ NoResponse

NextMention ==
    \/ Render
    \/ \E mention \in UiMentions : DeleteMention(mention)
    \/ \E mention \in UiMentions : AddMention(mention)
    \/ \E agent \in {AgentA, AgentB} : OnSelectAgent(agent)
    \/ \E list \in ChangeLists : OnChangeMention(list)
    \/ HandleKeyDown

SpecMention == InitMention /\ [][NextMention]_vars

\* A turn in automatic mode whose only mention is the workflow w1, with no
\* allow-list, from the loads to a call of the workflow tool by the model
\* (route.ts:124-208 and 463). The engine runs the stored structure of w1,
\* start node n1 then output node n2: it starts n2 once n1 has ended. Nodes
\* and the run may fail, the lookup may fail, and the client may cancel.
E2eRequest ==
    RequestBody("auto", TRUE, <<WorkflowMention("w1")>>,
                [defined |-> FALSE, servers |-> EmptyReg],
                [defined |-> FALSE, kits |-> {}])

InitE2e ==
    /\ pc = "loadMcp"
    /\ req = E2eRequest
    /\ message = CHOOSE m \in Messages : m.role = "user"
    /\ threw = {}
    /\ MCP_TOOLS = EmptyReg
    /\ WORKFLOW_TOOLS = EmptyReg
    /\ APP_DEFAULT_TOOLS = EmptyReg
    /\ task = <<>>
    /\ execLog = <<>>
    /\ stream = EmptyBag
    /\ vercelAITooles = EmptyReg
    /\ modelCalls = {}
    /\ thread = {}
    /\ WfIdle
    /\ SanIdle
    /\ ConvIdle
    /\ UiIdle
    /\ NoResponse

\* route.ts:463-484 with shared.chat.ts:244-261: the model's call of the
\* workflow tool invokes execute, which creates the tool result with status
\* running and looks the structure up
ExecuteByModel ==
    /\ pc = "model"
    /\ wfPc = "idle"
    /\ \E c \in modelCalls : c.tool.src = "workflow" /\ c.ran
    /\ wfPc' = "lookup"
    /\ toolResult' = [toolCallId |-> 7, status |-> "running"]
    /\ UNCHANGED <<engine, history, wfStream, returned, events, abortSignal,
                   exited>>
    /\ UNCHANGED <<turnVars, sanVars, convVars, uiVars, httpResponse>>

NextE2e ==
    \/ LoadMcp
    \/ LoadWorkflow
    \/ LoadAppDefault
    \/ StartGate
    \/ Compose
    \/ StreamText
    \/ ModelToolCall(NW)
    \/ ExecuteByModel
    \/ LookupFound
    \/ LookupFails
    \/ WorkflowStart
    \/ NodeStart(1, "n1")
    \/ (engine.exec[1] = "ended" /\ NodeStart(2, "n2"))
    \/ \E x \in 1..2 : NodeEnd(x, TRUE, NoError)
    \/ \E x \in 1..2, error \in Errors : NodeEnd(x, FALSE, error)
    \/ WorkflowEnd
    \/ RunResolves(TRUE, NoError)
    \/ \E error \in Errors : RunResolves(FALSE, error)
    \/ \E err \in Errors : RunRejects(err)
    \/ Abort

SpecE2e == InitE2e /\ [][NextE2e]_vars

\* The workflow load of a turn (route.ts:139-148) whose mentions are workflow
\* mentions of distinct workflows, stored or not
MaxWorkflows == 3

WorkflowIds == {"w1", "w2", "w3", "w4", "w9"}

WorkflowMentionLists ==
    UNION { { [i \in 1..n |-> WorkflowMention(f[i])] :
                f \in {g \in [1..n -> WorkflowIds] :
                         \A i, j \in 1..n : g[i] = g[j] => i = j} } :
            n \in 0..MaxWorkflows }

InitKeys ==
    /\ pc = "loadWf"
    /\ req \in { RequestBody(tc, TRUE, ms,
                              [defined |-> FALSE, servers |-> EmptyReg],
                              [defined |-> FALSE, kits |-> {}]) :
                    tc \in {"auto", "none"}, ms \in WorkflowMentionLists }
    /\ message = CHOOSE m \in Messages : m.role = "user"
    /\ threw = {}
    /\ MCP_TOOLS = EmptyReg
    /\ WORKFLOW_TOOLS = EmptyReg
    /\ APP_DEFAULT_TOOLS = EmptyReg
    /\ task = <<>>
    /\ execLog = <<>>
    /\ stream = EmptyBag
    /\ vercelAITooles = EmptyReg
    /\ modelCalls = {}
    /\ thread = {}
    /\ WfIdle
    /\ SanIdle
    /\ ConvIdle
    /\ UiIdle
    /\ NoResponse

NextKeys == LoadWorkflow
SpecKeys == InitKeys /\ [][NextKeys]_vars

\* The session and ownership checks in front of a turn (route.ts:51-86), for
\* requests of a manual or automatic chat that mentions an MCP tool and the
\* workflow, with a user message or an assistant message of one pending call.
\* getSession() gives no session or the session of a user; the thread of the
\* request is missing or owned by a user. A request that passes runs the turn.
NoSession == ""
NoThread == ""
Users == {"u1", "u2"}

AuthRequests ==
    { RequestBody(tc, TRUE,
                  <<McpToolMention("s1", <<"x">>), WorkflowMention("w1")>>,
                  [defined |-> FALSE, servers |-> EmptyReg],
                  [defined |-> FALSE, kits |-> {}]) : tc \in {"manual", "auto"} }

AuthMessages == {m \in Messages : Len(m.parts) <= 1}

\* the answer of the checks: the status of the early response (0 when there
\* is none), with the session user and the thread owner it was decided on
Answer(status, sessionUser, threadUser) ==
    [status |-> status, sessionUser |-> sessionUser, threadUser |-> threadUser]

\* a handler that tests the owner only of a thread it has just inserted
PostWithoutOwnerCheck(sessionUser, threadUser, r, m) ==
    /\ pc = "idle"
    /\ IF sessionUser = NoSession
       THEN /\ httpResponse' = Answer(401, sessionUser, threadUser)
            /\ UNCHANGED <<pc, req, message>>
       ELSE /\ httpResponse' = Answer(0, sessionUser, threadUser)
            /\ req' = r
            /\ message' = m
            /\ pc' = "getClients"
    /\ UNCHANGED <<threw, MCP_TOOLS, WORKFLOW_TOOLS, APP_DEFAULT_TOOLS, task,
                   execLog, stream, vercelAITooles, modelCalls, thread, wfVars,
                   sanVars, convVars, uiVars>>

\* route.ts:51-86: 401 without a session user; the thread is read, and
\* inserted for the session user when it is missing; 403 when its owner is
\* not the session user; otherwise the turn goes on
Post(sessionUser, threadUser, r, m) ==
    /\ pc = "idle"
    /\ IF sessionUser = NoSession
       THEN /\ httpResponse' = Answer(401, sessionUser, threadUser)
            /\ UNCHANGED <<pc, req, message>>
       ELSE LET owner == IF threadUser = NoThread THEN sessionUser
                         ELSE threadUser
            IN IF owner # sessionUser
               THEN /\ httpResponse' = Answer(403, sessionUser, threadUser)
                    /\ UNCHANGED <<pc, req, message>>
               ELSE /\ httpResponse' = Answer(0, sessionUser, threadUser)
                    /\ req' = r
                    /\ message' = m
                    /\ pc' = "getClients"
    /\ UNCHANGED <<threw, MCP_TOOLS, WORKFLOW_TOOLS, APP_DEFAULT_TOOLS, task,
                   execLog, stream, vercelAITooles, modelCalls, thread, wfVars,
                   sanVars, convVars, uiVars>>

InitAuth == TurnInit /\ WfIdle /\ SanIdle /\ ConvIdle /\ UiIdle /\ NoResponse

NextAuth ==
    \/ \E sessionUser \in Users \cup {NoSession},
          threadUser \in Users \cup {NoThread},
          r \in AuthRequests, m \in AuthMessages :
          Post(sessionUser, threadUser, r, m)
    \/ TurnFailed
    \/ GetClients
    \/ CountMcpTools
    \/ LoadMcp
    \/ LoadWorkflow
    \/ LoadAppDefault
    \/ StartGate
    \/ FinishResolution(1)
    \/ Compose
    \/ StreamText
    \/ \E name \in {NX, NW} : ModelToolCall(name)
    \/ Finish

SpecAuth == InitAuth /\ [][NextAuth]_vars

----------------------------------------------------------------------------
\* Properties

InProgress == {i \in DOMAIN task : task[i].state # "none"}
GateRegistry == GateTools(MCP_TOOLS, WORKFLOW_TOOLS, APP_DEFAULT_TOOLS)
PartName(i) == getToolName(message.parts[i])
EventsOf(i) == {e \in BagToSet(stream) :
                  e.toolCallId = message.parts[i].toolCallId}
\* the number of events the stream carries for part i
EventCount(i) == IF EventsOf(i) = {} THEN 0
                 ELSE BagCardinality([e \in EventsOf(i) |-> CopiesIn(e, stream)])
AtModel == pc \in {"streamText", "model"}

\* what each source yields for the request when it does not fail
EligibleMcp == loadMcpTools(req.mentions, req.allowedMcpServers, FALSE)
EligibleWorkflow == loadWorkFlowTools(req.mentions, FALSE)
EligibleApp ==
    loadAppDefaultTools(req.mentions, req.allowedAppDefaultToolkit, FALSE)

SourceHolds(site, src, eligible) ==
    IF site \in threw
    THEN \A k \in DOMAIN vercelAITooles : vercelAITooles[k].src # src
    ELSE \A k \in DOMAIN eligible :
            /\ k \in DOMAIN vercelAITooles
            /\ vercelAITooles[k].src \in {src, "app"}

\* C1: a failure of one tool source (the MCP manager throwing where the turn
\* obtains its tools, the workflow store, the built-in toolkit) never fails the
\* turn, and the registry at model invocation holds every eligible tool of the
\* other sources and none of the failed one.
C1_SourceFailureIsolated ==
    /\ threw \cap {"mcpTools", "loadMcp", "loadWf", "loadApp"} # {} => pc # "failed"
    /\ (AtModel /\ isToolCallAllowed(req)) =>
          /\ SourceHolds("loadMcp", "mcp", EligibleMcp)
          /\ SourceHolds("loadWf", "workflow", EligibleWorkflow)
          /\ SourceHolds("loadApp", "app", EligibleApp)

\* C2: for a pending record whose confirmation has confirm = false, the gate
\* invokes no executor (neither execute nor the MCP manager's toolCall).
C2_RejectedNeverExecutes ==
    \A i \in InProgress :
       (isManualToolConfirm(task[i].payload) /\ ~task[i].payload.confirm) =>
          /\ execLog[i] = <<>>
          /\ task[i].state # "running"
          /\ task[i].state = "done" =>
                message.parts[i].output.kind \in {"reject", "error"}

C2_Witness ==
    \E i \in InProgress :
       /\ isManualToolConfirm(task[i].payload) /\ ~task[i].payload.confirm
       /\ PartName(i) \in DOMAIN GateRegistry
       /\ task[i].state = "done"
       /\ message.parts[i].output = MANUAL_REJECT_RESPONSE_PROMPT

\* C3: when the tool name of the call is absent from the registry, or the
\* record's output is not a manual confirmation, the gate resolves to a
\* structured error naming the failure, invokes no executor, never rejects,
\* and the call gets its output and exactly one tool-output-available event.
C3_MissingToolOrConfirmation ==
    \A i \in InProgress :
       (PartName(i) \notin DOMAIN GateRegistry
          \/ ~isManualToolConfirm(task[i].payload)) =>
          /\ execLog[i] = <<>>
          /\ task[i].state \in {"settled", "done"}
          /\ pc # "failed"
          /\ task[i].state = "settled" =>
                /\ EventsOf(i) = {}
                /\ ENABLED FinishResolution(i)
          /\ task[i].state = "done" =>
                /\ message.parts[i].output =
                      ToolCallFail(PartName(i),
                                   IF PartName(i) \notin DOMAIN GateRegistry
                                   THEN "tool not found"
                                   ELSE "manual tool confirm not found")
                /\ EventCount(i) = 1
                /\ \A e \in EventsOf(i) :
                      e.output = message.parts[i].output

C3_Witness ==
    \E i \in InProgress :
       /\ PartName(i) \in DOMAIN GateRegistry
       /\ ~isManualToolConfirm(task[i].payload)
       /\ task[i].state = "done"
       /\ message.parts[i].output.kind = "error"
       /\ EventCount(i) = 1

\* C4: for a pending record with confirm = true whose tool is in the registry
\* composed in this turn, the gate invokes exactly one executor once, with the
\* record's input: an MCP tool through toolCall with its server id and origin
\* name, any other tool through its own execute; the recorded output is the
\* executor's result, or a structured error when it throws. Manual tool choice
\* included: the gate uses the real executors.
C4_ConfirmedExecutesOnce ==
    \A i \in InProgress :
       (/\ isManualToolConfirm(task[i].payload) /\ task[i].payload.confirm
        /\ PartName(i) \in DOMAIN GateRegistry) =>
          LET t == GateRegistry[PartName(i)]
          IN /\ Len(execLog[i]) = 1
             /\ execLog[i][1].input = message.parts[i].input
             /\ execLog[i][1].toolCallId = message.parts[i].toolCallId
             /\ execLog[i][1].tool = t
             /\ t.exec
             /\ execLog[i][1].via = IF t.src = "mcp" THEN "toolCall" ELSE "execute"
             /\ t.src = "mcp" => (t.serverId = McpRawTools[t.name].serverId
                                  /\ t.origin = McpRawTools[t.name].origin)
             /\ \A j \in InProgress \ {i} :
                   \A k \in DOMAIN execLog[j] :
                      execLog[j][k].toolCallId # message.parts[i].toolCallId
             /\ task[i].state = "done" =>
                   message.parts[i].output =
                      IF task[i].outcome = "throw"
                      THEN ToolCallFail(PartName(i), "executor error")
                      ELSE ExecutorResult(t, message.parts[i].input,
                                          IF task[i].outcome = "errorValue"
                                          THEN "run failed" ELSE "")

C4_Witness ==
    /\ isManual(req, message) /\ req.toolChoice = "manual"
    /\ \E i \in InProgress :
          /\ task[i].payload = ManualToolConfirm(TRUE)
          /\ PartName(i) \in DOMAIN GateRegistry
          /\ GateRegistry[PartName(i)].src = "workflow"
          /\ task[i].state = "done"
          /\ message.parts[i].output.kind = "result"
    /\ \E i \in InProgress :
          /\ task[i].payload = ManualToolConfirm(TRUE)
          /\ PartName(i) \in DOMAIN GateRegistry
          /\ GateRegistry[PartName(i)].src = "mcp"
          /\ task[i].state = "done"
          /\ task[i].outcome = "throw"

\* C5: model invocation does not begin before every resolution started in the
\* turn has finished with its output and its single event; all resolutions are
\* started before any is awaited, and an unfinished one can always finish,
\* whatever the others did (failed, or still running); none fails the turn.
C5_JoinBeforeModel ==
    /\ AtModel =>
          \A i \in InProgress :
             /\ task[i].state = "done"
             /\ ~isManualToolConfirm(message.parts[i].output)
             /\ EventCount(i) = 1
    /\ pc = "gate" =>
          \A i \in InProgress :
             /\ task[i].state \in {"running", "settled", "done"}
             /\ task[i].state \in {"running", "settled"} =>
                   (EventsOf(i) = {} /\ ENABLED FinishResolution(i))
             /\ task[i].state = "done" =>
                   (EventCount(i) = 1
                    /\ \A e \in EventsOf(i) :
                          e.output = message.parts[i].output)
    /\ pc = "failed" => InProgress = {}

C5_Witness ==
    /\ pc = "model"
    /\ \E i, j \in InProgress :
          /\ i # j
          /\ task[i].outcome = "throw"
          /\ task[j].outcome = "ok"
          /\ message.parts[j].output.kind = "result"
          /\ message.parts[i].output.kind = "error"
          /\ EventCount(i) = 1 /\ EventCount(j) = 1

\* C6: a manual confirmation is consumed once: a record whose executor output
\* is persisted from an earlier turn does not reach the executor again when it
\* is submitted again.
C6_ConfirmationConsumedOnce ==
    \A i \in DOMAIN execLog :
       message.parts[i].toolCallId \in thread => execLog[i] = <<>>

\* C7: under manual tool choice (request or message metadata) every MCP and
\* workflow tool handed to the model has no executor, so a model-issued call
\* to it runs nothing, and every built-in tool keeps its executor; otherwise
\* MCP and workflow tools keep their executors.
C7_ManualSuppressesExecutors ==
    /\ AtModel =>
          \A k \in DOMAIN vercelAITooles :
             vercelAITooles[k].exec <=>
                (vercelAITooles[k].src = "app" \/ ~isManual(req, message))
    /\ \A c \in modelCalls :
          c.ran <=> (c.tool.src = "app" \/ ~isManual(req, message))

C7_Witness ==
    /\ pc = "model"
    /\ req.toolChoice # "manual" /\ message.toolChoice = "manual"
    /\ \E k \in DOMAIN vercelAITooles : vercelAITooles[k].src = "app"
    /\ \E k \in DOMAIN vercelAITooles : vercelAITooles[k].src = "workflow"
    /\ \E c \in modelCalls : c.tool.src = "mcp" /\ ~c.ran

\* C8: a name present in the built-in toolkit set and in the MCP or workflow
\* set maps to the built-in tool both in the registry handed to the model and
\* in the registry the gate uses, manual tool choice included.
C8_BuiltInOverrides ==
    \A k \in DOMAIN APP_DEFAULT_TOOLS \cap
               (DOMAIN MCP_TOOLS \cup DOMAIN WORKFLOW_TOOLS) :
       /\ AtModel => vercelAITooles[k] = APP_DEFAULT_TOOLS[k]
       /\ \A i \in InProgress :
             (PartName(i) = k /\ execLog[i] # <<>>) =>
                /\ execLog[i][1].tool = APP_DEFAULT_TOOLS[k]
                /\ execLog[i][1].via = "execute"

C8_Witness ==
    /\ pc = "model"
    /\ isManual(req, message)
    /\ \E k \in DOMAIN APP_DEFAULT_TOOLS \cap DOMAIN MCP_TOOLS :
          /\ vercelAITooles[k].src = "app"
          /\ \E i \in InProgress : PartName(i) = k /\ execLog[i] # <<>>

C11_StatusRunningUntilResolved ==
    [][/\ engine.phase = "none" /\ wfPc = "lookup" => toolResult.status = "running"
       /\ wfPc' \in {"lookup", "running"} =>
             /\ toolResult'.status = "running"
             /\ \A k \in 1..Len(wfStream') : wfStream'[k].status = "running"
       /\ toolResult'.status # toolResult.status =>
             /\ toolResult.status = "running"
             /\ toolResult'.status \in {"success", "fail"}
       /\ toolResult.status \in {"success", "fail"} =>
             toolResult'.status = toolResult.status
       /\ RunResolves(TRUE, NoError) => toolResult'.status = "success"
       /\ (\E error \in Errors : RunResolves(FALSE, error)) =>
             toolResult'.status = "fail"]_vars

C11_Witness ==
    /\ wfPc = "returned"
    /\ toolResult.status = "fail"
    /\ Len(wfStream) >= 2
    /\ \A k \in 1..Len(wfStream) : wfStream[k].status = "running"

\* the event delivered by this step, if the step delivers one
Delivered == Len(events') = Len(events) + 1
LastEvent == events'[Len(events')]
\* the step appends exactly one snapshot of the current tool result
WritesSnapshot ==
    /\ Len(wfStream') = Len(wfStream) + 1
    /\ SubSeq(wfStream', 1, Len(wfStream)) = wfStream
    /\ wfStream'[Len(wfStream')].type = "tool-output-available"
    /\ wfStream'[Len(wfStream')].toolCallId = toolResult'.toolCallId
    /\ wfStream'[Len(wfStream')].status = toolResult'.status
    /\ wfStream'[Len(wfStream')].history = history'
\* the entry the NODE_END event names, if any, carries the event's outcome
EntryUpdated ==
    \A i \in 1..Len(history) :
       (history[i].id = LastEvent.nodeExecutionId
        /\ \A j \in 1..(i - 1) : history[j].id # LastEvent.nodeExecutionId) =>
          history'[i].status = IF LastEvent.isOk THEN "success" ELSE "fail"

\* C12 as stated: every NODE_END event the engine delivers makes the adapter
\* write one tool-output-available event with the call's toolCallId and the
\* current tool result, after the matching history entry is updated, in the
\* order of delivery (the stream is only appended to).
C12_EveryNodeEndWritten ==
    [][/\ Len(wfStream') >= Len(wfStream)
       /\ SubSeq(wfStream', 1, Len(wfStream)) = wfStream
       /\ (Delivered /\ LastEvent.eventType = "NODE_END") =>
             (WritesSnapshot /\ EntryUpdated)]_vars

\* C12 amended: the same for every NODE_END event of a node other than the
\* SKIP marker; a NODE_END of the SKIP marker writes nothing.
C12_NodeEndWrittenUnlessSkip ==
    [][/\ Len(wfStream') >= Len(wfStream)
       /\ SubSeq(wfStream', 1, Len(wfStream)) = wfStream
       /\ (Delivered /\ LastEvent.eventType = "NODE_END") =>
             IF LastEvent.node = "SKIP"
             THEN wfStream' = wfStream /\ history' = history
             ELSE WritesSnapshot /\ EntryUpdated]_vars

C12_Witness ==
    /\ \E k \in 1..Len(events) :
          events[k].eventType = "NODE_END" /\ events[k].node = "SKIP"
    /\ \E k \in 1..Len(events) :
          events[k].eventType = "NODE_END" /\ events[k].node = "n2"
          /\ ~events[k].isOk
    /\ Len(wfStream) = 2
    /\ wfStream[1].history[1].status = "running"
    /\ wfStream[2].history[1].status = "fail"

\* the step leaves every entry in place and only adds one running entry for
\* the event at the end
AppendsRunningEntry ==
    /\ Len(history') = Len(history) + 1
    /\ SubSeq(history', 1, Len(history)) = history
    /\ history'[Len(history')].status = "running"
    /\ history'[Len(history')].id = LastEvent.nodeExecutionId
    /\ ~history'[Len(history')].result.present
    /\ ~history'[Len(history')].ended
\* the step changes at most the entry the NODE_END event names
UpdatesMatchingEntryOnly ==
    /\ Len(history') = Len(history)
    /\ \A i \in 1..Len(history) :
          IF history[i].id = LastEvent.nodeExecutionId
          THEN /\ history'[i].id = history[i].id
               /\ history'[i].name = history[i].name
               /\ history'[i].kind = history[i].kind
               /\ history'[i].ended
               /\ IF LastEvent.isOk
                  THEN /\ history'[i].status = "success"
                       /\ history'[i].result.present
                  ELSE /\ history'[i].status = "fail"
                       /\ history'[i].error.present
                       /\ history'[i].error.name # ""
          ELSE history'[i] = history[i]

\* C13 as stated: WORKFLOW_START and WORKFLOW_END leave the history unchanged,
\* every NODE_START appends exactly one running entry at the end, a NODE_END
\* changes only the entry with the event's node execution id; nothing else
\* changes the history, whose length never decreases.
C13_HistoryChangesByEvent ==
    [][/\ Len(history') >= Len(history)
       /\ ~Delivered => history' = history
       /\ Delivered =>
             CASE LastEvent.eventType = "NODE_START" -> AppendsRunningEntry
               [] LastEvent.eventType = "NODE_END" -> UpdatesMatchingEntryOnly
               [] OTHER -> history' = history]_vars

\* C13 amended: a NODE_START appends its running entry when the event's node is
\* a node of the workflow structure; a NODE_START of the SKIP marker or of an
\* id the structure does not have leaves the history unchanged.
C13_HistoryChangesByKnownNodeEvent ==
    [][/\ Len(history') >= Len(history)
       /\ ~Delivered => history' = history
       /\ Delivered =>
             CASE LastEvent.eventType = "NODE_START" ->
                     IF LastEvent.node \in DOMAIN WorkflowNodes
                     THEN AppendsRunningEntry
                     ELSE history' = history
               [] LastEvent.eventType = "NODE_END" -> UpdatesMatchingEntryOnly
               [] OTHER -> history' = history]_vars

C13_Witness ==
    /\ \E k \in 1..Len(events) :
          events[k].eventType = "NODE_START" /\ events[k].node = "SKIP"
    /\ \E k \in 1..Len(events) : events[k].eventType = "WORKFLOW_END"
    /\ Len(history) = 1
    /\ history[1].status = "success"
    /\ history[1].result.present

\* the part that carries the value execute resolved to, as onFinish saves it
SavedPart ==
    convertToSavePart([type |-> <<"tool", "-">> \o NW,
                       state |-> "output-available", output |-> returned])

\* C14: on every way a workflow tool call ends, the history of the value the
\* adapter returns and of the part saved through convertToSavePart carries no
\* per-node result; the saved history has the entries of the live history, in
\* order, with only the result removed.
C14_NoNodeResultInFinalHistory ==
    wfPc = "returned" =>
       /\ \A i \in 1..Len(returned.history) : ~returned.history[i].result.present
       /\ \A i \in 1..Len(SavedPart.output.history) :
             ~SavedPart.output.history[i].result.present
       /\ SavedPart.output.history = StripResults(history)

\* the history entries of output nodes, and those among them with a truthy output
OutputEntries == {i \in 1..Len(history) : history[i].kind = "output"}
TruthyOutputEntries ==
    {i \in OutputEntries : history[i].result.present /\ history[i].result.output # ""}
\* items lists the outputs of the entries in idx, in history order
ListsOutputsOf(items, idx) ==
    /\ Len(items) = Cardinality(idx)
    /\ \A i \in idx :
          items[Cardinality({j \in idx : j <= i})] =
             (IF history[i].result.present THEN history[i].result.output
              ELSE "undefined")

\* C15 as stated: when the run completes, the result is the output of the
\* output node when exactly one output-node entry exists, and otherwise the
\* list of the outputs of all output-node entries in history order.
C15_ResultFromOutputEntries ==
    (wfPc = "returned" /\ returned.kind = "toolResult") =>
       /\ returned.result.list <=> Cardinality(OutputEntries) # 1
       /\ ListsOutputsOf(returned.result.items, OutputEntries)

\* C15 amended: the same, counting only the output-node entries whose output
\* is present and truthy.
C15_ResultFromTruthyOutputs ==
    (wfPc = "returned" /\ returned.kind = "toolResult") =>
       /\ returned.result.list <=> Cardinality(TruthyOutputEntries) # 1
       /\ ListsOutputsOf(returned.result.items, TruthyOutputEntries)

C15_Witness ==
    /\ wfPc = "returned"
    /\ returned.kind = "toolResult"
    /\ Cardinality(OutputEntries) = 2
    /\ returned.result = [list |-> FALSE, items |-> <<"text">>]

\* C16: when the workflow of the tool is not found, the engine is never
\* created or run and no snapshot is written; execute resolves to an error
\* value, which becomes the output of that call only: the other pending call
\* gets its own output, the turn does not fail and model invocation is reached.
C16_NotFoundFailsThatCallOnly ==
    /\ engine.phase = "none" /\ events = <<>> /\ wfStream = <<>> /\ ~exited
    /\ pc # "failed"
    /\ wfPc = "returned" <=> returned.kind # "none"
    /\ wfPc = "returned" =>
          /\ returned.kind = "errorValue"
          /\ returned.error.present
          /\ returned.error.name # ""
          /\ task[1].state = "running" => ENABLED ResolveWorkflowCall
          /\ task[1].state = "done" =>
                /\ message.parts[1].output.kind = "result"
                /\ message.parts[1].output.error # ""
                /\ EventCount(1) = 1
    /\ pc = "gate" =>
          /\ task[2].state \in {"running", "settled"} => ENABLED FinishResolution(2)
          /\ (\A i \in InProgress : task[i].state = "done") => ENABLED Compose
    /\ AtModel =>
          /\ wfPc = "returned"
          /\ \A i \in InProgress :
                task[i].state = "done" /\ EventCount(i) = 1
                /\ ~isManualToolConfirm(message.parts[i].output)

C16_Witness ==
    /\ pc = "model"
    /\ wfPc = "returned"
    /\ returned.kind = "errorValue"
    /\ message.parts[1].output.error # ""
    /\ message.parts[2].output.kind = "result"
    /\ message.parts[2].output.error = ""

\* C17: when the cancellation signal has fired at any time since the call was
\* invoked (also before the invocation, or during the lookup), the engine of
\* the run has been asked to exit, and the call still resolves to a value.
C17_AbortRequestsExit ==
    /\ (wfPc = "running" /\ abortSignal.aborted) => exited
    /\ (wfPc = "returned" /\ abortSignal.aborted) =>
          returned.kind \in {"toolResult", "errorValue"}

\* C18: once the cancellation signal has fired, no step starts a tool
\* invocation: the gate invokes no executor for a confirmed pending call, and
\* a workflow tool call does not create and run the engine.
C18_NoInvocationAfterAbort ==
    [][abortSignal.aborted =>
          /\ \A i \in DOMAIN execLog' :
                execLog'[i] # <<>> => (i \in DOMAIN execLog /\ execLog[i] = execLog'[i])
          /\ engine.phase = "none" => engine'.phase = "none"]_vars

\* the call of the sanitizer has returned processedMessages
Sanitized == sanPc = "done"

\* the parts of the sanitized history
SanitizedParts ==
    UNION { { processedMessages[m].parts[p] :
                p \in DOMAIN processedMessages[m].parts } :
            m \in { k \in DOMAIN processedMessages :
                      processedMessages[k].hasParts } }

WellFormedText(part) ==
    IsString(part.text) /\ Len(Trim(part.text.s)) > 0

WellFormedImage(part) ==
    /\ IsString(part.image)
    /\ part.mediaType.t \in {"undefined", "string"}

WellFormedFile(part) ==
    /\ IsString(part.data)
    /\ IsString(part.mediaType) /\ part.mediaType.s # <<>>
    /\ IsString(part.name) /\ part.name.s # <<>>

WellFormedPart(part) ==
    CASE part.type = <<"text">> -> WellFormedText(part)
      [] part.type = <<"image">> -> WellFormedImage(part)
      [] part.type = <<"file">> -> WellFormedFile(part)
      [] OTHER -> isToolUIPart(part)

\* C19: every part of the sanitized history is a text, image, file or tool
\* part; a text part has a string text that is not blank, an image part has a
\* string image reference and no media type that is not a string, and a file
\* part has string data, a non-empty string media type and a non-empty string
\* name
C19_SanitizedPartsWellFormed ==
    Sanitized => \A part \in SanitizedParts : WellFormedPart(part)

\* `out` is `input` without some of its parts that are not tool parts, the
\* parts kept being of the same type and in the same order, and the tool
\* parts being kept as they are
RECURSIVE KeepsToolParts(_, _)
KeepsToolParts(out, input) ==
    IF input = <<>> THEN out = <<>>
    ELSE \/ /\ out # <<>>
            /\ Head(out).type = Head(input).type
            /\ isToolUIPart(Head(input)) => Head(out) = Head(input)
            /\ KeepsToolParts(Tail(out), Tail(input))
         \/ /\ ~isToolUIPart(Head(input))
            /\ KeepsToolParts(out, Tail(input))

\* C20: every tool part of the given history is in the sanitized history,
\* with the same content and at the same place among the parts kept of its
\* message
C20_ToolPartsPassThrough ==
    Sanitized =>
       /\ Len(processedMessages) = Len(given)
       /\ \A m \in DOMAIN given :
             given[m].hasParts =>
                KeepsToolParts(processedMessages[m].parts, given[m].parts)

\* a part that satisfies the invariants of the data model before sanitization:
\* nothing in it is missing, blank, null or of another type than a string
InDataModel(part) ==
    CASE part.type = <<"text">> -> WellFormedText(part)
      [] part.type = <<"image">> ->
            /\ IsString(part.image) /\ part.image.s # <<>>
            /\ part.mediaType.t = "string" => Len(Trim(part.mediaType.s)) > 0
            /\ part.mediaType.t \in {"undefined", "string"}
      [] part.type = <<"file">> ->
            /\ IsString(part.data) /\ part.data.s # <<>>
            /\ IsString(part.mediaType) /\ Len(Trim(part.mediaType.s)) > 0
            /\ IsString(part.name) /\ part.name.s # <<>>
            /\ \A k \in {"url", "mimeType"} : part[k].t \in {"undefined", "string"}
      [] OTHER -> isToolUIPart(part)

HistoryInDataModel(h) ==
    \A m \in DOMAIN h : \A p \in DOMAIN h[m].parts : InDataModel(h[m].parts[p])

\* C22: a history whose parts all satisfy the invariants of the data model is
\* returned by the sanitizer with the same messages, the same parts and the
\* same content
C22_WellFormedHistoryUnchanged ==
    (Sanitized /\ HistoryInDataModel(given)) => processedMessages = given

\* the sanitizer stands at a file part without data whose reference it fetches
AtReferencedFile ==
    /\ AtPart
    /\ CurrentPart.type = <<"file">>
    /\ KeepsFileBeforeFetch(CurrentPart)
    /\ NeedsFetch(CurrentPart)
    /\ IsString(CurrentPart.url)

\* the step keeps the part, its data being the content of the response (the
\* text, or its encoding for transport)
RetainsWithContent(response) ==
    /\ Len(validParts') = Len(validParts) + 1
    /\ validParts'[Len(validParts')].data \in
          {JsString(response.body), JsString(Base64(response.body))}

\* the step drops the part and nothing else
DropsOnlyThisPart ==
    /\ validParts' = validParts
    /\ processedMessages' = processedMessages
    /\ messages' = messages
    /\ sanPos' = [sanPos EXCEPT !.p = @ + 1]

\* C23: a file part without data whose reference is fetched with success is
\* kept with the fetched content as its data, whatever its media type fields
\* are; when the fetch fails the part alone is dropped
C23_ReferencedFileFetched ==
    [][\A response \in Responses, now \in Clock :
          (AtReferencedFile /\ SanitizeFile(response, now)) =>
             /\ (response.ok /\ response.body # <<>>) =>
                   RetainsWithContent(response)
             /\ ~response.ok => DropsOnlyThisPart]_vars

\* the sanitizer stands at a file part that holds payload data
AtFileWithData ==
    /\ AtPart
    /\ CurrentPart.type = <<"file">>
    /\ Truthy(CurrentPart.data) /\ IsString(CurrentPart.data)

\* a field holds a value (undefined, null, the empty string and 0 are none)
Present(v) == Truthy(v)

\* a value that can stand as a media type
IsMediaType(v) == IsString(v) /\ Len(Trim(v.s)) > 0

\* the text after the last "." of a name, the whole name when it has none
RECURSIVE LastSegment(_)
LastSegment(s) ==
    IF \E i \in DOMAIN s : s[i] = "." THEN LastSegment(Tail(s)) ELSE s

\* the type of the extension table for a name, or the generic binary type
TableType(name) ==
    IF Present(name) /\ IsString(name)
    THEN LET ext == LastSegment(name.s)
         IN IF Len(ext) = 1 /\ toLowerCase(ext[1]) \in DOMAIN mediaTypeMap
            THEN JsString(mediaTypeMap[toLowerCase(ext[1])])
            ELSE JsString(OctetStream)
    ELSE JsString(OctetStream)

\* canonical type, else legacy type, else table, else generic
ClaimedMediaType(part) ==
    IF Present(part.mediaType) THEN part.mediaType
    ELSE IF Present(part.mimeType) THEN part.mimeType
    ELSE TableType(part.name)

\* the same, a value that cannot stand as a media type giving the generic type
RepairedMediaType(part) ==
    IF Present(part.mediaType)
    THEN IF IsMediaType(part.mediaType) THEN part.mediaType
         ELSE JsString(OctetStream)
    ELSE IF Present(part.mimeType)
         THEN IF IsMediaType(part.mimeType) THEN part.mimeType
              ELSE JsString(OctetStream)
         ELSE TableType(part.name)

\* the step keeps the file part with media type `expected`, without the legacy
\* field when that was used, and with a name
KeepsFileWith(expected) ==
    /\ Len(validParts') = Len(validParts) + 1
    /\ LET out == validParts'[Len(validParts')]
       IN /\ out.mediaType = expected
          /\ (~Present(CurrentPart.mediaType) /\ Present(CurrentPart.mimeType))
                => out.mimeType = JsUndefined
          /\ IsString(out.name) /\ out.name.s # <<>>
          /\ (Present(CurrentPart.name) /\ IsString(CurrentPart.name))
                => out.name = CurrentPart.name

\* C24 as stated: the media type of a sanitized file part with data is its
\* canonical type when present, else its legacy type, else the table's type
\* for the extension of its name, else application/octet-stream; a part
\* without a name gets one
C24_MediaTypeByPrecedence ==
    [][\A response \in Responses, now \in Clock :
          (AtFileWithData /\ SanitizeFile(response, now)) =>
             KeepsFileWith(ClaimedMediaType(CurrentPart))]_vars

\* C24 amended: as stated, except that a canonical or legacy value that is
\* present but is not a string with text in it gives application/octet-stream
C24_MediaTypeByPrecedenceOfValidTypes ==
    [][\A response \in Responses, now \in Clock :
          (AtFileWithData /\ SanitizeFile(response, now)) =>
             KeepsFileWith(RepairedMediaType(CurrentPart))]_vars

\* a file named Report.CSV without media type fields has become text/csv, and
\* one with only the legacy field has taken its value
C24_Witness ==
    /\ Sanitized
    /\ Len(given) = 1 /\ Len(given[1].parts) = 1
    /\ given[1].parts[1].type = <<"file">>
    /\ given[1].parts[1].data = JsString(<<"d">>)
    /\ ~Present(given[1].parts[1].mediaType)
    /\ ~Present(given[1].parts[1].mimeType)
    /\ given[1].parts[1].name = JsString(<<"Report", ".", "CSV">>)
    /\ Len(processedMessages[1].parts) = 1
    /\ processedMessages[1].parts[1].mediaType =
          JsString(<<"text", "/", "csv">>)

\* the mentions of the turn of the given types
MentionsOfType(types) ==
    { req.mentions[i] : i \in { j \in DOMAIN req.mentions :
                                   req.mentions[j].type \in types } }

\* loadMcpTools has returned without a failure of the MCP manager
McpLoaded ==
    /\ pc \in {"loadWf", "loadApp", "extract"}
    /\ isToolCallAllowed(req)
    /\ "loadMcp" \notin threw

\* loadAppDefaultTools has returned without a failure
AppLoaded ==
    /\ pc = "extract"
    /\ isToolCallAllowed(req)
    /\ "loadApp" \notin threw

\* the raw MCP tools the allow-list names
AllowListed ==
    { k \in DOMAIN McpRawTools :
        /\ req.allowedMcpServers.defined
        /\ McpRawTools[k].serverId \in DOMAIN req.allowedMcpServers.servers
        /\ McpRawTools[k].origin \in
              req.allowedMcpServers.servers[McpRawTools[k].serverId] }

\* C28: when no mention of the turn is an MCP-tool or MCP-server mention, the
\* MCP tools of the turn are the raw tools that the allow-list names
C28_McpFallsBackToAllowList ==
    (McpLoaded /\ MentionsOfType({"mcpTool", "mcpServer"}) = {}) =>
       MCP_TOOLS = [k \in AllowListed |-> McpRawTools[k]]

\* the tools of the toolkits the allow-list names, of every toolkit without one
AllowedKitTools ==
    LET kits == IF req.allowedAppDefaultToolkit.defined
                THEN req.allowedAppDefaultToolkit.kits
                ELSE DOMAIN APP_DEFAULT_TOOL_KIT
    IN UNION { DOMAIN APP_DEFAULT_TOOL_KIT[kit] : kit \in kits }

\* C29: when no mention of the turn is a built-in-tool mention, the built-in
\* tools of the turn are those of the allowed toolkits, or of every toolkit
\* when no allow-list is configured
C29_BuiltInFallsBackToAllowList ==
    (AppLoaded /\ MentionsOfType({"defaultTool"}) = {}) =>
       /\ DOMAIN APP_DEFAULT_TOOLS = AllowedKitTools
       /\ \A k \in DOMAIN APP_DEFAULT_TOOLS : APP_DEFAULT_TOOLS[k].src = "app"

\* the raw MCP tools the mentions name: by their server, or by their server
\* and origin name
Mentioned ==
    { k \in DOMAIN McpRawTools :
        \/ \E m \in MentionsOfType({"mcpServer"}) :
              m.serverId = McpRawTools[k].serverId
        \/ \E m \in MentionsOfType({"mcpTool"}) :
              /\ m.serverId = McpRawTools[k].serverId
              /\ m.name = McpRawTools[k].origin }

\* C30: when the mentions contain MCP mentions, the MCP tools of the turn are
\* the raw tools of the mentioned servers and the raw tools whose server and
\* origin name a tool mention names, whatever the allow-list is
C30_McpMentionsSelectExactly ==
    (McpLoaded /\ MentionsOfType({"mcpTool", "mcpServer"}) # {}) =>
       MCP_TOOLS = [k \in Mentioned |-> McpRawTools[k]]

\* the tool m of server s2 is mentioned, with an allow-list that names other
\* tools: only that tool is loaded, not the tool m of server s1
C30_Witness ==
    /\ McpLoaded
    /\ req.mentions = <<McpToolMention("s2", <<"m">>), WorkflowMention("w1")>>
    /\ req.allowedMcpServers.defined
    /\ AllowListed = {NX}
    /\ DOMAIN MCP_TOOLS = {NM}


\* the parts of the messages of a history
PartsIn(hist) ==
    { hist[m].parts[p] :
        <<m, p>> \in { <<m, p>> \in (DOMAIN hist) \X (1..(MaxSanParts + 1)) :
                          hist[m].hasParts /\ p \in DOMAIN hist[m].parts } }

\* the parts whose call the gate resolved in this turn
ResolvedByGate == { i \in DOMAIN task : task[i].state = "done" }

\* C21: the tool part of every call the gate resolved at the start of the turn
\* is, with its resolved output, among the messages handed to the conversion
\* to the model format
C21_GateOutputsReachConversion ==
    Len(handed) >= 1 =>
       \A i \in ResolvedByGate : message.parts[i] \in PartsIn(handed[1])


\* the notices and the surfaced errors written to the output stream
Notices == CopiesIn(AttachmentsRemoved, stream)
SurfacedErrors == CopiesIn(Surfaced(AllAttemptsFailed), stream)

\* the conversion pipeline of the turn has ended
ConversionEnded == Len(handed) >= 1 /\ pc \in {"model", "done", "failed"}

FirstConversionSucceeded ==
    /\ Len(handed) = 1
    /\ pc # "failed"
    /\ invocations = <<handed[1]>>
    /\ Notices = 0
    /\ SurfacedErrors = 0

RetrySucceeded ==
    /\ Len(handed) = 2
    /\ pc # "failed"
    /\ Notices = 1
    /\ SurfacedErrors = 0
    /\ invocations = <<handed[2]>>

BothFailed ==
    /\ Len(handed) = 2
    /\ pc = "failed"
    /\ "conversion" \in threw
    /\ SurfacedErrors = 1
    /\ Notices = 0
    /\ invocations = <<>>

\* C25: the conversion pipeline of a turn ends in exactly one of: the first
\* conversion succeeds, the model is invoked once and no notice is written;
\* the first fails and the text-only retry succeeds, one notice that
\* attachments were removed is written and the model is invoked once with the
\* degraded history; both fail, the turn fails with a surfaced error and the
\* model is not invoked. Until it ends the model is not invoked.
C25_ConversionEndsInOneOfThree ==
    /\ ConversionEnded =>
          \/ FirstConversionSucceeded /\ ~RetrySucceeded /\ ~BothFailed
          \/ ~FirstConversionSucceeded /\ RetrySucceeded /\ ~BothFailed
          \/ ~FirstConversionSucceeded /\ ~RetrySucceeded /\ BothFailed
    /\ ~ConversionEnded => invocations = <<>>

\* each of the three outcomes is reached, the second with a degraded history
\* that differs from the sanitized one
C25_Witness ==
    /\ pc = "done"
    /\ RetrySucceeded
    /\ handed[2] # handed[1]


IsTextPart(part) == part.type = <<"text">>

\* the text parts of a message of the sanitized history, in their order
TextOnly(msg) == IF msg.hasParts THEN SelectSeq(msg.parts, IsTextPart) ELSE <<>>

\* message m of the degraded history d is message m of the sanitized history s
\* reduced to its text parts, or holds the one placeholder
DegradedFrom(d, s, m) ==
    /\ d[m].role = s[m].role
    /\ d[m].hasParts
    /\ d[m].parts # <<>>
    /\ \A p \in DOMAIN d[m].parts : IsTextPart(d[m].parts[p])
    /\ IF TextOnly(s[m]) = <<>>
       THEN d[m].parts = <<Placeholder>>
       ELSE d[m].parts = TextOnly(s[m])

\* C26: the degraded history has one message per sanitized message, in the
\* same order and with the same role; all its parts are text parts; a message
\* keeps exactly its text parts in order, and a message without a text part
\* gets exactly one placeholder text part, so that none is empty
C26_DegradedHistoryIsTextOnly ==
    Len(handed) = 2 =>
       /\ Len(handed[2]) = Len(handed[1])
       /\ \A m \in DOMAIN handed[1] : DegradedFrom(handed[2], handed[1], m)

\* a degraded history in which one message got the placeholder and another
\* kept its text part and lost a part of another type
C26_Witness ==
    /\ Len(handed) = 2
    /\ \E m \in DOMAIN handed[1] : handed[2][m].parts = <<Placeholder>>
    /\ \E m \in DOMAIN handed[1] :
          /\ TextOnly(handed[1][m]) # <<>>
          /\ TextOnly(handed[1][m]) # handed[1][m].parts


\* the step that builds the degraded history, and the step that persists
\* after it was used
DegradeStep == pc = "streamText" /\ Len(handed) = 1 /\ Len(handed') = 2
PersistAfterDegrade == pc = "model" /\ pc' = "done" /\ Len(handed) = 2

\* the stored messages other than the incoming one and the response stay
EarlierMessagesKept ==
    \A i \in DOMAIN store :
       store[i].id \notin {message.id, "r1"} =>
          i \in DOMAIN store' /\ store'[i] = store[i]

\* C27: the degrade path writes nothing to the store and changes nothing in
\* what will be persisted; at the end of the turn the incoming message is
\* stored with the parts it would have had if the first conversion had
\* succeeded, and the earlier stored messages are left as they were
C27_DegradePathLeavesStoreAlone ==
    [][/\ DegradeStep => store' = store /\ onFinish' = onFinish
       /\ PersistAfterDegrade => store' = wouldPersist /\ EarlierMessagesKept]_vars

\* a turn that took the degrade path has persisted, next to an earlier
\* message, the incoming message with parts other than the degraded ones
C27_Witness ==
    /\ pc = "done"
    /\ Len(handed) = 2
    /\ Len(store) >= 3
    /\ \E i \in DOMAIN store :
          /\ store[i].id = message.id
          /\ store[i].parts # handed[2][Len(handed[2])].parts


\* the lists that hold the mentions of the turn in any order, any number of times
Reorderings ==
    LET ms == { req.mentions[i] : i \in DOMAIN req.mentions }
    IN { l \in UNION { [1..n -> ms] : n \in 0..MaxMentions } :
            { l[i] : i \in DOMAIN l } = ms }

\* C31: the MCP tools and the built-in tools loaded for the turn are those
\* that any other ordering of the same mentions, with any of them repeated,
\* resolves to under the same raw tools and allow-lists
C31_ResolutionOrderIndependent ==
    /\ McpLoaded =>
          \A l \in Reorderings :
             loadMcpTools(l, req.allowedMcpServers, FALSE) = MCP_TOOLS
    /\ AppLoaded =>
          \A l \in Reorderings :
             loadAppDefaultTools(l, req.allowedAppDefaultToolkit, FALSE)
                = APP_DEFAULT_TOOLS

\* a tool mention followed by a mention of its server: the two MCP tools of
\* the server are loaded
C31_Witness ==
    /\ AppLoaded
    /\ McpLoaded
    /\ Len(req.mentions) = 2
    /\ req.mentions[1] = McpToolMention("s1", <<"x">>)
    /\ req.mentions[2] = McpServerMention("s1")
    /\ DOMAIN MCP_TOOLS = {NX, NY}


\* the agent mentions of a list
AgentsIn(list) == { i \in DOMAIN list : list[i].type = "agent" }

\* C32: after any sequence of addMention, onChangeMention, onSelectAgent,
\* deleteMention and Escape the thread's mention list holds at most one agent
\* mention, and adding an agent mention to a list that holds another one
\* leaves the added one as the only agent mention
C32_AtMostOneAgentMention ==
    [][/\ Cardinality(AgentsIn(threadMentions')) <= 1
       /\ \A agent \in {AgentA, AgentB} :
             (/\ renderedMentions = threadMentions
              /\ AgentsIn(threadMentions) # {}
              /\ AddMention(agent))
                => \A i \in AgentsIn(threadMentions') :
                      threadMentions'[i] = agent]_vars

\* an agent mention was added to a list that held the other agent, a tool and
\* a workflow
C32_Witness ==
    /\ Len(renderedMentions) = 3
    /\ Len(threadMentions) = 3
    /\ \E i \in AgentsIn(renderedMentions), j \in AgentsIn(threadMentions) :
          renderedMentions[i] # threadMentions[j]


\* the elements of a list
Elements(list) == { list[i] : i \in DOMAIN list }

\* C39: when onChangeMention is called with several mentions none of which is
\* in the thread's list, the list afterwards holds every non-agent mention it
\* held before and every mention of the call, of the agent mentions the last
C39_NoMentionUpdateLost ==
    [][\A list \in ChangeLists :
          (/\ renderedMentions = threadMentions
           /\ Len(list) >= 2
           /\ Elements(list) \cap Elements(threadMentions) = {}
           /\ OnChangeMention(list))
             => /\ { m \in Elements(threadMentions) : m.type # "agent" }
                      \subseteq Elements(threadMentions')
                /\ Elements(LastAgentOnly(list))
                      \subseteq Elements(threadMentions')]_vars


\* part i of the incoming message is a tool-call record of an assistant
\* message, in state output-available, with a confirmation as its output
AwaitsResolution(i) ==
    /\ message.role = "assistant"
    /\ isToolUIPart(message.parts[i])
    /\ message.parts[i].state = "output-available"
    /\ isManualToolConfirm(message.parts[i].output)

\* the gate starts, works, and is left for the composition of the registry
GateStarts == pc = "extract" /\ pc' = "gate"
GateWorks == pc = "gate"
GateEnds == pc = "gate" /\ pc' = "streamText"

\* part i stays outside the gate's work in this step: unchanged, no executor
\* invoked for it and no event written for it
LeftAlone(i) ==
    /\ message'.parts[i] = message.parts[i]
    /\ execLog'[i] = <<>>
    /\ isToolUIPart(message.parts[i]) =>
          \A e \in BagToSet(stream') :
             e.toolCallId # message.parts[i].toolCallId

\* part i has been resolved: its output is no confirmation any more and one
\* event was written for it
Resolved(i) ==
    /\ task[i].state = "done"
    /\ ~isManualToolConfirm(message.parts[i].output)
    /\ EventCount(i) = 1
    /\ \A e \in EventsOf(i) : e.output = message.parts[i].output

\* C33 as stated: the gate takes up exactly the records of an incoming
\* assistant message that are in state output-available with a confirmation as
\* output; it resolves each of them and leaves every other part alone
C33_GateResolvesPendingRecords ==
    [][/\ GateStarts =>
             \A i \in DOMAIN message.parts :
                task'[i].state # "none" <=> AwaitsResolution(i)
       /\ GateWorks =>
             \A i \in DOMAIN message.parts :
                task[i].state = "none" => LeftAlone(i)
       /\ GateEnds => \A i \in InProgress : Resolved(i)]_vars

\* C33 for the messages the code takes up: the gate takes up exactly the
\* records of an incoming assistant message with manual tool choice in its
\* metadata that are in state output-available with a confirmation as output;
\* it resolves each of them and leaves every other part alone
C33_GateResolvesPendingRecordsOfManualMessages ==
    [][/\ GateStarts =>
             \A i \in DOMAIN message.parts :
                task'[i].state # "none" <=>
                   (AwaitsResolution(i) /\ message.toolChoice = "manual")
       /\ GateWorks =>
             \A i \in DOMAIN message.parts :
                task[i].state = "none" => LeftAlone(i)
       /\ GateEnds => \A i \in InProgress : Resolved(i)]_vars

\* the gate has resolved the second record of a message and left the first,
\* a record in another state, as it was
C33_Witness ==
    /\ pc = "streamText"
    /\ Len(message.parts) = 2
    /\ isToolUIPart(message.parts[1])
    /\ message.parts[1].state = "input-available"
    /\ task[1].state = "none"
    /\ task[2].state = "done"
    /\ EventCount(2) = 1


\* the record of part i was taken up with confirm = false and is resolved
RejectedAndResolved(i) ==
    /\ isManualToolConfirm(task[i].payload)
    /\ ~task[i].payload.confirm
    /\ task[i].state = "done"

\* the output recorded for part i and the one event of the stream for it are
\* the fixed rejection notice
RejectionNoticeRecorded(i) ==
    /\ message.parts[i].output = MANUAL_REJECT_RESPONSE_PROMPT
    /\ EventCount(i) = 1
    /\ \A e \in EventsOf(i) : e.output = MANUAL_REJECT_RESPONSE_PROMPT

\* C34 as stated: for every record taken up by the gate with confirm = false
\* the recorded and the emitted output are the fixed rejection notice
C34_RejectionNoticeForEveryRejected ==
    \A i \in InProgress : RejectedAndResolved(i) => RejectionNoticeRecorded(i)

\* C34 for the calls whose tool the turn has: for every record taken up by
\* the gate with confirm = false, whose tool is in the registry composed for
\* the turn, the recorded and the emitted output are the fixed rejection notice
C34_RejectionNoticeForRejectedKnownTool ==
    \A i \in InProgress :
       (RejectedAndResolved(i) /\ PartName(i) \in DOMAIN GateRegistry) =>
          RejectionNoticeRecorded(i)

\* the model is reached after one call was rejected and another was executed
C34_Witness ==
    /\ pc = "model"
    /\ \E i, j \in InProgress :
          /\ RejectedAndResolved(i)
          /\ PartName(i) \in DOMAIN GateRegistry
          /\ RejectionNoticeRecorded(i)
          /\ task[j].payload = ManualToolConfirm(TRUE)
          /\ message.parts[j].output.kind = "result"


\* a turn is under way for which tool calls are disallowed
Disallowed == pc # "idle" /\ ~isToolCallAllowed(req)

\* the positions of the turn after the MCP, the workflow and the built-in load
AfterLoadMcp == {"loadWf", "loadApp", "extract", "gate", "streamText", "model"}
AfterLoadWorkflow == AfterLoadMcp \ {"loadWf"}
AfterLoadAppDefault == AfterLoadWorkflow \ {"loadApp"}

\* the sources are empty as far as they have been asked, and so is the
\* registry handed to the model, whose size is the reported tool count
NothingLoaded ==
    /\ pc \in AfterLoadMcp => MCP_TOOLS = EmptyReg
    /\ pc \in AfterLoadWorkflow => WORKFLOW_TOOLS = EmptyReg
    /\ pc \in AfterLoadAppDefault => APP_DEFAULT_TOOLS = EmptyReg
    /\ AtModel => /\ vercelAITooles = EmptyReg
                  /\ Cardinality(DOMAIN vercelAITooles) = 0

TwoNodeRun ==
    <<Event("WORKFLOW_START", 0, "", TRUE),
      Event("NODE_START", 1, "n1", TRUE), Event("NODE_END", 1, "n1", TRUE),
      Event("NODE_START", 2, "n2", TRUE), Event("NODE_END", 2, "n2", TRUE),
      Event("WORKFLOW_END", 0, "", TRUE)>>

\* the three sources were read without a failure
SourcesAnswered == threw = {}

OnlyTheWorkflowTool ==
    /\ MCP_TOOLS = EmptyReg
    /\ APP_DEFAULT_TOOLS = EmptyReg
    /\ Cardinality(DOMAIN vercelAITooles) = 1
    /\ \A k \in DOMAIN vercelAITooles :
          /\ vercelAITooles[k].src = "workflow"
          /\ vercelAITooles[k].serverId = "w1"
          /\ vercelAITooles[k].exec

SuccessWithTwoEntries(v) ==
    /\ isWorkflowToolResult(v)
    /\ v.status = "success"
    /\ Len(v.history) = 2
    /\ \A i \in 1..2 : v.history[i].status = "success"

\* C36: in a turn whose mention list is the one workflow mention of w1, with
\* no allow-list and tool calls allowed, and whose sources answer, the
\* composed registry holds exactly one tool, the workflow tool of w1, and no
\* MCP or built-in tool; and when the run of the two-node workflow that the
\* model's call of this tool started has emitted exactly the start and the
\* successful end of both nodes and resolves ok, execute resolves to a
\* WorkflowToolResult with status success and a history of exactly two
\* entries, both with status success.
C36_OneWorkflowToolEndToEnd ==
    /\ [](pc \in {"streamText", "model"} /\ SourcesAnswered
            => OnlyTheWorkflowTool)
    /\ [][(/\ RunResolves(TRUE, NoError)
           /\ events = TwoNodeRun
           /\ SourcesAnswered)
          => SuccessWithTwoEntries(returned')]_vars

\* the model called the only tool of the registry and its execution of the
\* two-node run resolved ok
C36_Witness ==
    /\ pc = "model"
    /\ SourcesAnswered
    /\ OnlyTheWorkflowTool
    /\ \E c \in modelCalls : c.tool = vercelAITooles[NW] /\ c.ran
    /\ wfPc = "returned"
    /\ events = TwoNodeRun
    /\ SuccessWithTwoEntries(returned)

\* the workflows the store returns for the workflow mentions of the request
MentionedWorkflows ==
    LET wms == SelectSeq(req.mentions, LAMBDA m : m.type = "workflow")
    IN selectToolByIds([i \in 1..Len(wms) |-> wms[i].workflowId])

\* C37: the registry keys of the workflow source are unique per workflow:
\* after a workflow load that the store answered, the workflow registry has
\* one entry for every one of the distinct workflows the store returned for
\* the turn's mentions, so none of them is lost because of another one's name.
C37_WorkflowKeysUniquePerWorkflow ==
    (pc = "loadApp" /\ isToolCallAllowed(req) /\ "loadWf" \notin threw)
        => /\ Cardinality(DOMAIN WORKFLOW_TOOLS) = Len(MentionedWorkflows)
           /\ \A i \in 1..Len(MentionedWorkflows) :
                 \E k \in DOMAIN WORKFLOW_TOOLS :
                    WORKFLOW_TOOLS[k].serverId = MentionedWorkflows[i].id

\* the value carries everything the last snapshot written for the call did:
\* the same history entries, each in the same status
AsRecentAsLastSnapshot(v) ==
    wfStream # <<>> =>
        LET last == wfStream[Len(wfStream)]
        IN /\ v.toolCallId = last.toolCallId
           /\ Len(v.history) = Len(last.history)
           /\ \A i \in 1..Len(last.history) :
                 /\ v.history[i].id = last.history[i].id
                 /\ v.history[i].status = last.history[i].status

\* C38: no workflow tool call is left in status running: whenever execute has
\* resolved, on every path (workflow not found, run throwing, run resolving
\* ok or not ok), the value is a WorkflowToolResult whose status is success
\* or fail, and it is at least as recent as the last snapshot written to the
\* output stream for the call.
C38_ResolvedCallIsNeverRunning ==
    wfPc = "returned"
        => /\ isWorkflowToolResult(returned)
           /\ returned.status \in {"success", "fail"}
           /\ AsRecentAsLastSnapshot(returned)

\* the checks refused the request
Refused(answer) == answer.status \in {401, 403}

\* no turn is running for the request
NoTurnRuns ==
    /\ pc = "idle"
    /\ wfPc = "idle"
    /\ sanPc = "idle"
    /\ invocations = <<>>

====
